---- MODULE Spec2Model ----
(***************************************************************************)
(* Model of ai-extraction-tester: the Comparator (deep JSON diff), the     *)
(* Scorer (penalty based scores) and the TestOrchestrator (bounded         *)
(* concurrency loop that runs the cases of a suite).                       *)
(*                                                                         *)
(* JSON values are tagged records.  Numbers are integers.  Scores are kept *)
(* in hundredths (Math.round(x * 100) / 100 is represented by the integer  *)
(* Math.round(x * 100)), so 100.00 is 10000.                               *)
(***************************************************************************)
EXTENDS Integers, Sequences, FiniteSets, TLC

(***************************************************************************)
(* Bounds of the model.                                                    *)
(***************************************************************************)
MaxNum == 2
MaxArrLen == 2
MaxCases == 4
MaxParallelBound == 2

(***************************************************************************)
(* JSON values.                                                            *)
(***************************************************************************)
JNull == [k |-> "null"]
JBool(b) == [k |-> "bool", b |-> b]
JNum(n) == [k |-> "num", n |-> n]
JStr(s) == [k |-> "str", s |-> s]
JArr(items) == [k |-> "arr", items |-> items]
\* an object keeps its keys in insertion order, as Object.keys returns them
JObj(keys, vals) == [k |-> "obj", keys |-> keys, vals |-> vals]

\* JavaScript typeof
Typeof(v) ==
  CASE v.k = "num" -> "number"
    [] v.k = "str" -> "string"
    [] v.k = "bool" -> "boolean"
    [] OTHER -> "object"

IsArray(v) == v.k = "arr"

Max(a, b) == IF a >= b THEN a ELSE b

Abs(a) == IF a >= 0 THEN a ELSE -a

\* JavaScript String(v): Array.prototype.join renders null elements as ""
RECURSIVE JSString(_)
RECURSIVE JoinItems(_, _)
JoinItems(items, i) ==
  IF i > Len(items) THEN ""
  ELSE (IF i > 1 THEN "," ELSE "")
       \o (IF items[i].k = "null" THEN "" ELSE JSString(items[i]))
       \o JoinItems(items, i + 1)

JSString(v) ==
  CASE v.k = "null" -> "null"
    [] v.k = "bool" -> (IF v.b THEN "true" ELSE "false")
    [] v.k = "num" -> ToString(v.n)
    [] v.k = "str" -> v.s
    [] v.k = "arr" -> JoinItems(v.items, 1)
    [] OTHER -> "[object Object]"

\* JSON.stringify(v)
RECURSIVE JSONStringify(_)
RECURSIVE StringifyItems(_, _)
RECURSIVE StringifyFields(_, _)
StringifyItems(items, i) ==
  IF i > Len(items) THEN ""
  ELSE (IF i > 1 THEN "," ELSE "") \o JSONStringify(items[i])
       \o StringifyItems(items, i + 1)

StringifyFields(o, i) ==
  IF i > Len(o.keys) THEN ""
  ELSE (IF i > 1 THEN "," ELSE "") \o "\"" \o o.keys[i] \o "\":"
       \o JSONStringify(o.vals[i]) \o StringifyFields(o, i + 1)

JSONStringify(v) ==
  CASE v.k = "null" -> "null"
    [] v.k = "bool" -> (IF v.b THEN "true" ELSE "false")
    [] v.k = "num" -> ToString(v.n)
    [] v.k = "str" -> "\"" \o v.s \o "\""
    [] v.k = "arr" -> "[" \o StringifyItems(v.items, 1) \o "]"
    [] OTHER -> "{" \o StringifyFields(v, 1) \o "}"

\* the numeric literals the model can read back from a string
NumLiterals == (0 - MaxNum - 1) .. (MaxNum + 1)

\* JavaScript Number(v) for a number or a string; NaN is [nan |-> TRUE]
NaN == [nan |-> TRUE, n |-> 0]
ToNumber(v) ==
  IF v.k = "num" THEN [nan |-> FALSE, n |-> v.n]
  ELSE IF v.s = "" THEN [nan |-> FALSE, n |-> 0]
  ELSE IF \E n \in NumLiterals : ToString(n) = v.s
       THEN [nan |-> FALSE, n |-> CHOOSE n \in NumLiterals : ToString(n) = v.s]
       ELSE NaN

\* `key in value` and value[key] for a non-null object or array
HasKey(v, key) ==
  IF v.k = "obj" THEN \E i \in 1..Len(v.keys) : v.keys[i] = key
  ELSE IF v.k = "arr"
       THEN key = "length" \/ \E i \in 1..Len(v.items) : ToString(i - 1) = key
       ELSE FALSE

GetKey(v, key) ==
  IF v.k = "obj" THEN v.vals[CHOOSE i \in 1..Len(v.keys) : v.keys[i] = key]
  ELSE IF key = "length" THEN JNum(Len(v.items))
  ELSE v.items[CHOOSE i \in 1..Len(v.items) : ToString(i - 1) = key]

(***************************************************************************)
(* Comparator (src/src/core/comparator.ts).  A comparison result is a      *)
(* record of four lists; the recursive procedures of the source push onto  *)
(* the lists of one shared result, the operators below return the entries  *)
(* they push, in the order they push them.                                 *)
(***************************************************************************)
EmptyRes == [mismatches |-> <<>>, missing |-> <<>>, extra |-> <<>>, warnings |-> <<>>]

Merge(r1, r2) ==
  [mismatches |-> r1.mismatches \o r2.mismatches,
   missing |-> r1.missing \o r2.missing,
   extra |-> r1.extra \o r2.extra,
   warnings |-> r1.warnings \o r2.warnings]

Mismatch(path, gt, actual, type) ==
  [EmptyRes EXCEPT !.mismatches =
     <<[path |-> path, groundTruth |-> gt, actual |-> actual, type |-> type]>>]

Missing(path, expected) ==
  [EmptyRes EXCEPT !.missing = <<[path |-> path, expectedValue |-> expected]>>]

Extra(path, value) ==
  [EmptyRes EXCEPT !.extra = <<[path |-> path, value |-> value]>>]

Warning(path, message) ==
  [EmptyRes EXCEPT !.warnings = <<[path |-> path, message |-> message]>>]

\* path ? `${path}.${key}` : key
FieldPath(path, key) == IF path # "" THEN path \o "." \o key ELSE key

\* `${path}[${i}]`, i counted from 0
ItemPath(path, i) == path \o "[" \o ToString(i) \o "]"

\* The rules are a record of the settings that are defined: a rule set by
\* neither the case nor the defaults is undefined when compare reads it
HasSetting(settings, field) == field \in DOMAIN settings

\* a boolean rule read as a condition: undefined is falsy
Flag(rules, field) == HasSetting(rules, field) /\ rules[field]

\* difference <= rules.numericTolerance; a comparison with undefined is false
WithinTolerance(difference, rules) ==
  HasSetting(rules, "numericTolerance") /\ difference <= rules.numericTolerance

\* two numbers compared with the tolerance bound left out
ComparePrimitivesStrict(gt, actual, path, rules) ==
  LET differentTypes == Flag(rules, "typeCoercion") /\ Typeof(gt) # Typeof(actual)
      numberAndString ==
        \/ Typeof(gt) = "number" /\ Typeof(actual) = "string"
        \/ Typeof(gt) = "string" /\ Typeof(actual) = "number"
      gtNum == ToNumber(gt)
      actualNum == ToNumber(actual)
  IN IF differentTypes /\ numberAndString /\ ~gtNum.nan /\ ~actualNum.nan
     THEN IF WithinTolerance(Abs(gtNum.n - actualNum.n), rules)
          THEN EmptyRes
          ELSE Mismatch(path, gt, actual, "numeric")
     ELSE IF differentTypes /\ JSString(gt) = JSString(actual)
     THEN EmptyRes
     ELSE IF Typeof(gt) = "number" /\ Typeof(actual) = "number"
     THEN IF HasSetting(rules, "numericTolerance")
             /\ Abs(gt.n - actual.n) < rules.numericTolerance
          THEN EmptyRes
          ELSE Mismatch(path, gt, actual, "numeric")
     ELSE IF gt # actual
     THEN Mismatch(path, gt, actual, "value")
     ELSE EmptyRes

ComparePrimitives(gt, actual, path, rules) ==
  LET differentTypes == Flag(rules, "typeCoercion") /\ Typeof(gt) # Typeof(actual)
      numberAndString ==
        \/ Typeof(gt) = "number" /\ Typeof(actual) = "string"
        \/ Typeof(gt) = "string" /\ Typeof(actual) = "number"
      gtNum == ToNumber(gt)
      actualNum == ToNumber(actual)
  IN IF differentTypes /\ numberAndString /\ ~gtNum.nan /\ ~actualNum.nan
     THEN IF WithinTolerance(Abs(gtNum.n - actualNum.n), rules)
          THEN EmptyRes
          ELSE Mismatch(path, gt, actual, "numeric")
     ELSE IF differentTypes /\ JSString(gt) = JSString(actual)
     THEN EmptyRes
     ELSE IF Typeof(gt) = "number" /\ Typeof(actual) = "number"
     THEN IF WithinTolerance(Abs(gt.n - actual.n), rules)
          THEN EmptyRes
          ELSE Mismatch(path, gt, actual, "numeric")
     ELSE IF gt # actual
     THEN Mismatch(path, gt, actual, "value")
     ELSE EmptyRes

\* new Set(items.map(String))
StringSet(items) == {JSString(items[i]) : i \in 1..Len(items)}

\* the first loop of the unordered branch: ground-truth items whose string
\* form is not in the set of actual's string forms
RECURSIVE UnorderedMissing(_, _, _, _)
UnorderedMissing(gt, actualSet, path, i) ==
  IF i > Len(gt) THEN EmptyRes
  ELSE Merge(IF JSString(gt[i]) \notin actualSet
             THEN Missing(path \o "[]", gt[i])
             ELSE EmptyRes,
             UnorderedMissing(gt, actualSet, path, i + 1))

\* the second loop of the unordered branch
RECURSIVE UnorderedExtra(_, _, _, _)
UnorderedExtra(actual, gtSet, path, i) ==
  IF i > Len(actual) THEN EmptyRes
  ELSE Merge(IF JSString(actual[i]) \notin gtSet
             THEN Extra(path \o "[]", actual[i])
             ELSE EmptyRes,
             UnorderedExtra(actual, gtSet, path, i + 1))

RECURSIVE CompareObject(_, _, _, _, _)
RECURSIVE ComparePositional(_, _, _, _, _, _)
RECURSIVE CompareKeys(_, _, _, _, _, _)

\* the index loop shared by compareObjectArrays and the ordered branch of
\* compareArrays; gt and actual are the item sequences, i counts from 0
ComparePositional(gt, actual, path, ignoreSet, rules, i) ==
  IF i >= Max(Len(gt), Len(actual)) THEN EmptyRes
  ELSE Merge(IF i >= Len(gt) THEN Extra(ItemPath(path, i), actual[i + 1])
             ELSE IF i >= Len(actual) THEN Missing(ItemPath(path, i), gt[i + 1])
             ELSE CompareObject(gt[i + 1], actual[i + 1], ItemPath(path, i),
                                ignoreSet, rules),
             ComparePositional(gt, actual, path, ignoreSet, rules, i + 1))

\* the order warning raised on equal lengths alone
UnorderedCompareLengthOnly(gt, actual, path) ==
  Merge(Merge(UnorderedMissing(gt, StringSet(actual), path, 1),
              UnorderedExtra(actual, StringSet(gt), path, 1)),
        IF Len(gt) = Len(actual)
        THEN Warning(path, "Array order differs (unordered comparison enabled)")
        ELSE EmptyRes)

\* the unordered branch of compareArrays
UnorderedCompare(gt, actual, path) ==
  Merge(Merge(UnorderedMissing(gt, StringSet(actual), path, 1),
              UnorderedExtra(actual, StringSet(gt), path, 1)),
        IF Len(gt) = Len(actual)
           /\ JSONStringify(JArr(gt)) # JSONStringify(JArr(actual))
        THEN Warning(path, "Array order differs (unordered comparison enabled)")
        ELSE EmptyRes)

CompareArrays(gt, actual, path, ignoreSet, rules) ==
  IF HasSetting(rules, "arrayStrategy") /\ rules.arrayStrategy = "ordered"
  THEN ComparePositional(gt, actual, path, ignoreSet, rules, 0)
  ELSE UnorderedCompare(gt, actual, path)

\* arrays of objects compared as the configured strategy says
CompareObjectArraysByStrategy(gt, actual, path, ignoreSet, rules) ==
  CompareArrays(gt, actual, path, ignoreSet, rules)

CompareObjectArrays(gt, actual, path, ignoreSet, rules) ==
  ComparePositional(gt, actual, path, ignoreSet, rules, 0)

\* the loop over Object.keys(gt) of compareObject, i counts from 1
CompareKeys(gt, actual, path, ignoreSet, rules, i) ==
  IF i > Len(gt.keys) THEN EmptyRes
  ELSE LET key == gt.keys[i]
           fieldPath == FieldPath(path, key)
       IN Merge(IF fieldPath \in ignoreSet THEN EmptyRes
                ELSE IF ~HasKey(actual, key) THEN Missing(fieldPath, gt.vals[i])
                ELSE CompareObject(gt.vals[i], GetKey(actual, key), fieldPath,
                                   ignoreSet, rules),
                CompareKeys(gt, actual, path, ignoreSet, rules, i + 1))

CompareObject(gt, actual, path, ignoreSet, rules) ==
  IF gt.k = "null" /\ actual.k = "null" THEN EmptyRes
  ELSE IF gt.k = "null" \/ actual.k = "null"
  THEN Mismatch(IF path # "" THEN path ELSE "root", gt, actual, "value")
  ELSE IF IsArray(gt)
  THEN IF ~IsArray(actual) THEN Mismatch(path, gt, actual, "type")
       ELSE IF Len(gt.items) = 0 /\ Len(actual.items) = 0 THEN EmptyRes
       ELSE IF Len(gt.items) > 0 /\ Typeof(gt.items[1]) = "object"
       THEN CompareObjectArrays(gt.items, actual.items, path, ignoreSet, rules)
       ELSE CompareArrays(gt.items, actual.items, path, ignoreSet, rules)
  ELSE IF Typeof(gt) = "object"
  THEN IF Typeof(actual) # "object" THEN Mismatch(path, gt, actual, "type")
       ELSE CompareKeys(gt, actual, path, ignoreSet, rules, 1)
  ELSE ComparePrimitives(gt, actual, path, rules)

RECURSIVE DetectExtraFields(_, _, _, _)
RECURSIVE DetectExtraKeys(_, _, _, _, _)

\* the loop over Object.keys(actual) of detectExtraFields, i counts from 1
DetectExtraKeys(gt, actual, path, ignoreSet, i) ==
  IF i > Len(actual.keys) THEN EmptyRes
  ELSE LET key == actual.keys[i]
           fieldPath == FieldPath(path, key)
       IN Merge(IF fieldPath \in ignoreSet \/ key \in ignoreSet THEN EmptyRes
                ELSE IF ~HasKey(gt, key) THEN Extra(fieldPath, actual.vals[i])
                ELSE IF Typeof(actual.vals[i]) = "object"
                        /\ Typeof(GetKey(gt, key)) = "object"
                THEN DetectExtraFields(GetKey(gt, key), actual.vals[i],
                                       fieldPath, ignoreSet)
                ELSE EmptyRes,
                DetectExtraKeys(gt, actual, path, ignoreSet, i + 1))

DetectExtraFields(gt, actual, path, ignoreSet) ==
  IF Typeof(actual) # "object" \/ actual.k = "null" THEN EmptyRes
  ELSE IF Typeof(gt) # "object" \/ gt.k = "null" THEN EmptyRes
  ELSE IF IsArray(actual) \/ IsArray(gt) THEN EmptyRes
  ELSE DetectExtraKeys(gt, actual, path, ignoreSet, 1)

\* result.passed as compare computes it from the finished lists
Passed(result, rules) ==
  /\ Len(result.mismatches) = 0
  /\ Len(result.missing) = 0
  /\ (Len(result.extra) = 0 \/ ~Flag(rules, "extraFieldsWarning"))

Compare(groundTruth, actual, rules) ==
  LET \* new Set(rules.ignoreFields || [])
      ignoreSet == IF HasSetting(rules, "ignoreFields") THEN rules.ignoreFields ELSE {}
      lists == Merge(CompareObject(groundTruth, actual, "", ignoreSet, rules),
                     DetectExtraFields(groundTruth, actual, "", ignoreSet))
  IN [passed |-> Passed(lists, rules),
      mismatches |-> lists.mismatches,
      missing |-> lists.missing,
      extra |-> lists.extra,
      warnings |-> lists.warnings]

(***************************************************************************)
(* SchemaInferrer (src/src/core/comparator.ts, lines 356-459).  The fields  *)
(* map is a list of entries in insertion order.                            *)
(***************************************************************************)
\* getType(value)
GetType(v) ==
  CASE v.k = "null" -> "null"
    [] v.k = "arr" -> "array"
    [] v.k = "str" -> "string"
    [] v.k = "num" -> "number"
    [] v.k = "bool" -> "boolean"
    [] OTHER -> "object"

\* JavaScript truthiness of a value
Truthy(v) ==
  CASE v.k = "null" -> FALSE
    [] v.k = "bool" -> v.b
    [] v.k = "num" -> v.n # 0
    [] v.k = "str" -> v.s # ""
    [] OTHER -> TRUE

\* value[0] || '': the first item when there is one and it is truthy
FirstOrEmptyString(items) ==
  IF Len(items) > 0 /\ Truthy(items[1]) THEN items[1] ELSE JStr("")

\* obj.slice(0, 3)
Slice3(items) == SubSeq(items, 1, IF Len(items) < 3 THEN Len(items) ELSE 3)

\* fields.set(path, entry): replaces the entry of the path or appends one
SetField(fields, entry) ==
  IF \E i \in 1..Len(fields) : fields[i].path = entry.path
  THEN [i \in 1..Len(fields) |->
          IF fields[i].path = entry.path THEN entry ELSE fields[i]]
  ELSE Append(fields, entry)

SchemaField(path, type, isArray, sampleValues) ==
  [path |-> path, type |-> type, isArray |-> isArray, isRequired |-> TRUE,
   sampleValues |-> sampleValues]

\* typeof first === 'object' && first !== null, for the first item of a
\* non-empty list
LedByObject(items) == Len(items) > 0 /\ items[1].k \in {"obj", "arr"}

RECURSIVE TraverseObject(_, _, _)
RECURSIVE TraverseEntries(_, _, _, _)

\* the loop over Object.entries(obj) of traverseObject, i counts from 1
TraverseEntries(obj, prefix, fields, i) ==
  IF i > Len(obj.keys) THEN fields
  ELSE LET value == obj.vals[i]
           fieldPath == FieldPath(prefix, obj.keys[i])
           after ==
             IF value.k = "null"
             THEN SetField(fields, SchemaField(fieldPath, "null", FALSE, <<JNull>>))
             ELSE IF IsArray(value)
             THEN IF LedByObject(value.items)
                  THEN TraverseObject(value.items[1], fieldPath \o "[]", fields)
                  ELSE SetField(fields,
                         SchemaField(fieldPath,
                                     GetType(FirstOrEmptyString(value.items)),
                                     TRUE, Slice3(value.items)))
             ELSE IF Typeof(value) = "object"
             THEN TraverseObject(value, fieldPath, fields)
             ELSE SetField(fields,
                           SchemaField(fieldPath, GetType(value), FALSE, <<value>>))
       IN TraverseEntries(obj, prefix, after, i + 1)

TraverseObject(obj, prefix, fields) ==
  IF obj.k = "null" THEN fields
  ELSE IF IsArray(obj)
  THEN IF Len(obj.items) = 0 THEN fields
       ELSE IF LedByObject(obj.items)
       THEN TraverseObject(obj.items[1], prefix \o "[]", fields)
       ELSE SetField(fields,
                     SchemaField(prefix, GetType(obj.items[1]), TRUE,
                                 Slice3(obj.items)))
  ELSE IF Typeof(obj) = "object"
  THEN TraverseEntries(obj, prefix, fields, 1)
  ELSE fields

\* infer(data), prefix = ''
Infer(data) ==
  LET fields == TraverseObject(data, "", <<>>)
  IN [fields |-> fields, totalFields |-> Len(fields)]

NoSchema == [fields |-> <<>>, totalFields |-> 0]

(***************************************************************************)
(* Scorer (src/src/core/scorer.ts).                                        *)
(***************************************************************************)
\* Math.round((num / den) * 100), the score num / den in hundredths;
\* Math.round rounds halves up, den > 0.  The quotients of the scorer have
\* small denominators (a number of field paths), so the double the code
\* computes and the exact quotient round to the same hundredth
RoundHundredths(num, den) == (200 * num + den) \div (2 * den)

\* Set.add over a list of entries: the distinct paths in first-insertion order
RECURSIVE AddPaths(_, _, _)
AddPaths(schema, entries, i) ==
  IF i > Len(entries) THEN schema
  ELSE AddPaths(IF \E j \in 1..Len(schema) : schema[j] = entries[i].path
                THEN schema
                ELSE Append(schema, entries[i].path),
                entries, i + 1)

\* a schema that also takes the paths of the extra entries
ExtractSchemaWithExtra(comparison) ==
  AddPaths(AddPaths(AddPaths(<<>>, comparison.mismatches, 1), comparison.missing, 1),
           comparison.extra, 1)

\* extractSchema: the paths of the mismatches, then those of the missing
ExtractSchema(comparison) ==
  AddPaths(AddPaths(<<>>, comparison.mismatches, 1), comparison.missing, 1)

\* The scoring config is a record of the penalties that are defined.  A
\* penalty that is not defined reads as undefined, and a sum with an
\* undefined term is NaN; both are written as a number no score and no
\* penalty can be
Undefined == 0 - 1

NotANumber == 0 - 2

\* config[penalty]
Penalty(config, penalty) ==
  IF HasSetting(config, penalty) THEN config[penalty] ELSE Undefined

EmptyResult ==
  [overallScore |-> 10000,
   completenessScore |-> 10000,
   accuracyScore |-> 10000,
   extraFieldScore |-> 0,
   fieldScores |-> <<>>,
   breakdown |-> [totalFields |-> 0, matchedFields |-> 0, missingFields |-> 0,
                  mismatchedFields |-> 0, extraFields |-> 0]]

HasPath(entries, field) == \E i \in 1..Len(entries) : entries[i].path = field

\* the loop over the schema that scores the compared fields, i counts from 1
RECURSIVE SchemaFieldScores(_, _, _, _)
SchemaFieldScores(schema, comparison, config, i) ==
  IF i > Len(schema) THEN <<>>
  ELSE LET field == schema[i]
       IN (IF HasPath(comparison.missing, field)
           THEN <<[field |-> field, score |-> 0,
                   penalty |-> Penalty(config, "missingFieldPenalty"),
                   reason |-> "Field missing in output"]>>
           ELSE IF HasPath(comparison.mismatches, field)
           THEN <<[field |-> field, score |-> 50,
                   penalty |-> Penalty(config, "mismatchPenalty"),
                   reason |-> "Field value mismatch"]>>
           ELSE IF ~HasPath(comparison.extra, field)
           THEN <<[field |-> field, score |-> 100, penalty |-> 0,
                   reason |-> "Perfect match"]>>
           ELSE <<>>)
          \o SchemaFieldScores(schema, comparison, config, i + 1)

\* extra fields credited like mismatched ones
ExtraFieldScoresHalf(comparison, config) ==
  [i \in 1..Len(comparison.extra) |->
     [field |-> comparison.extra[i].path, score |-> 50,
      penalty |-> Penalty(config, "extraFieldPenalty"),
      reason |-> "Extra field in output"]]

\* the entries pushed for the extra fields
ExtraFieldScores(comparison, config) ==
  [i \in 1..Len(comparison.extra) |->
     [field |-> comparison.extra[i].path, score |-> 75,
      penalty |-> Penalty(config, "extraFieldPenalty"),
      reason |-> "Extra field in output"]]

\* the fields present in the output: only the missing ones are taken off
MatchedFieldsPresent(totalFields, comparison) ==
  totalFields - Len(comparison.missing)

\* matchedFields = totalFields - missing.length - mismatches.length
MatchedFields(totalFields, comparison) ==
  totalFields - Len(comparison.missing) - Len(comparison.mismatches)

Score(comparison, config) ==
  LET schema == ExtractSchema(comparison)
      totalFields == Len(schema)
      matchedFields == MatchedFields(totalFields, comparison)
      missingN == Len(comparison.missing)
      mismatchN == Len(comparison.mismatches)
      extraN == Len(comparison.extra)
      \* n * undefined is NaN, whatever n is
      penaltiesDefined ==
        \A penalty \in {"missingFieldPenalty", "mismatchPenalty", "extraFieldPenalty"} :
          HasSetting(config, penalty)
      totalPenalty == missingN * config.missingFieldPenalty
                      + mismatchN * config.mismatchPenalty
                      + extraN * config.extraFieldPenalty
      \* 100 - (totalPenalty / totalFields) * 10, as a fraction over totalFields
      overallNum == 100 * totalFields - 10 * totalPenalty
  IN IF totalFields = 0 THEN EmptyResult
     ELSE [overallScore |-> IF ~penaltiesDefined
                            THEN NotANumber  \* Math.max(0, NaN), rounded
                            ELSE IF overallNum > 0
                            THEN RoundHundredths(overallNum, totalFields)
                            ELSE 0,
           completenessScore |-> RoundHundredths(matchedFields * 100, totalFields),
           accuracyScore |-> RoundHundredths((totalFields - mismatchN) * 100,
                                             totalFields),
           extraFieldScore |-> RoundHundredths(extraN * 100, Max(totalFields, 1)),
           fieldScores |-> SchemaFieldScores(schema, comparison, config, 1)
                           \o ExtraFieldScores(comparison, config),
           breakdown |-> [totalFields |-> totalFields,
                          matchedFields |-> matchedFields,
                          missingFields |-> missingN,
                          mismatchedFields |-> mismatchN,
                          extraFields |-> extraN]]

(***************************************************************************)
(* State.                                                                  *)
(*   gt, actual, rules, scoringConfig, comparison, scoring, cpc: one call  *)
(*   of Comparator.compare followed by Scorer.score (cpc is the position); *)
(*   schema is what compare infers from the ground truth.                  *)
(*   The remaining variables are one call of TestOrchestrator.runSuite.    *)
(***************************************************************************)
VARIABLES gt, actual, rules, scoringConfig, comparison, scoring, cpc, schema,
          phase, config, maxParallel, delayBetweenRequests, queue,
          activeCount, results, casePc, timers, stopped, failedCalls,
          completed, suiteResult, env, requests, trace, awaited, input

cmpVars == <<gt, actual, rules, scoringConfig, comparison, scoring, cpc, schema>>
runVars == <<phase, config, maxParallel, delayBetweenRequests, queue, activeCount, results, casePc,
             timers, stopped, failedCalls, completed, suiteResult>>
fetchVars == <<env, requests, trace, awaited, input>>
vars == <<gt, actual, rules, scoringConfig, comparison, scoring, cpc, schema,
          phase, config, maxParallel, delayBetweenRequests, queue, activeCount, results, casePc,
          timers, stopped, failedCalls, completed, suiteResult,
          env, requests, trace, awaited, input>>

\* schema defaults of ComparisonRulesSchema and ScoringConfigSchema
DefaultRules ==
  [ignoreFields |-> {}, arrayStrategy |-> "unordered", numericTolerance |-> 0,
   typeCoercion |-> TRUE, extraFieldsWarning |-> TRUE]

DefaultScoring ==
  [missingFieldPenalty |-> 10, mismatchPenalty |-> 5, extraFieldPenalty |-> 2]

NoComparison ==
  [passed |-> FALSE, mismatches |-> <<>>, missing |-> <<>>, extra |-> <<>>,
   warnings |-> <<>>]

ZeroScoring ==
  [overallScore |-> 0, completenessScore |-> 0, accuracyScore |-> 0,
   extraFieldScore |-> 0, fieldScores |-> <<>>,
   breakdown |-> [totalFields |-> 0, matchedFields |-> 0, missingFields |-> 0,
                  mismatchedFields |-> 0, extraFields |-> 0]]

(***************************************************************************)
(* Inputs of compare and score.                                            *)
(***************************************************************************)
Scalars ==
  {JNull, JBool(TRUE), JStr(""), JStr("1")} \cup {JNum(n) : n \in 0..MaxNum}

FieldValues == {JStr("1")} \cup {JNum(n) : n \in 1..MaxNum}

ArrayElements == {JNum(1), JNum(2)}

\* arrays of numbers
PrimitiveArrays ==
  {JArr(items) : items \in UNION {[1..n -> ArrayElements] : n \in 0..MaxArrLen}}

\* arrays of primitives with a null element
NullArrays ==
  {JArr(<<JNull>>), JArr(<<JNull, JNum(1)>>), JArr(<<JNum(1), JNull>>)}

KeyLists == {<<>>, <<"x">>, <<"y">>, <<"x", "y">>}

FlatObjects ==
  UNION {{JObj(keys, vals) : vals \in [1..Len(keys) -> FieldValues]} : keys \in KeyLists}

ArrayObjects == {JObj(<<"arr">>, <<a>>) : a \in PrimitiveArrays \cup NullArrays}

\* what the key o of a nested object holds
NestedValues ==
  {JNum(1), JArr(<<JNum(1)>>), JObj(<<>>, <<>>),
   JObj(<<"x">>, <<JNum(1)>>), JObj(<<"x">>, <<JNum(2)>>),
   JObj(<<"x", "y">>, <<JNum(1), JNum(1)>>)}

NestedObjects == {JObj(<<"o">>, <<v>>) : v \in NestedValues}

\* the elements of the arrays of objects
FirstElement == JObj(<<"x">>, <<JNum(1)>>)

ElementObjects ==
  {FirstElement, JObj(<<"x", "y">>, <<JNum(1), JNum(1)>>),
   JObj(<<"arr">>, <<JArr(<<JNum(1), JNum(2)>>)>>),
   JObj(<<"arr">>, <<JArr(<<JNum(2), JNum(1)>>)>>)}

\* arrays of one object, and of FirstElement followed by a second object
ObjectArrays ==
  {JArr(<<e>>) : e \in ElementObjects}
    \cup {JArr(<<FirstElement, e>>) : e \in ElementObjects}

\* a field holding the empty string, and one holding 0
EmptyStringObjects == {JObj(<<"x">>, <<JStr("")>>), JObj(<<"x">>, <<JNum(0)>>)}

JsonValues ==
  Scalars \cup PrimitiveArrays \cup NullArrays \cup FlatObjects
    \cup ArrayObjects \cup NestedObjects \cup ObjectArrays \cup EmptyStringObjects

\* the non-empty ignoreFields lists of the model: a key, a nested key, an index
IgnoreSets == {{"x"}, {"o.x"}, {"arr[0]"}}

RuleSets ==
  [ignoreFields : {{}},
   arrayStrategy : {"ordered", "unordered"},
   numericTolerance : {0, 1},
   typeCoercion : BOOLEAN,
   extraFieldsWarning : BOOLEAN]
    \cup {[DefaultRules EXCEPT !.ignoreFields = ignored, !.arrayStrategy = strategy] :
            ignored \in IgnoreSets, strategy \in {"ordered", "unordered"}}

ScoringConfigs ==
  {DefaultScoring,
   [missingFieldPenalty |-> 100, mismatchPenalty |-> 100, extraFieldPenalty |-> 100],
   [missingFieldPenalty |-> 0, mismatchPenalty |-> 0, extraFieldPenalty |-> 0]}

(***************************************************************************)
(* TestOrchestrator (src/src/core/comparator.ts, lines 474-715).           *)
(***************************************************************************)
\* a merge in which the defaults win over the override
ShallowMergeDefaultsWin(defaults, override) ==
  [f \in (DOMAIN defaults) \cup (DOMAIN override) |->
     IF f \in DOMAIN defaults THEN defaults[f] ELSE override[f]]

\* { ...defaults, ...override }
ShallowMerge(defaults, override) ==
  [f \in (DOMAIN defaults) \cup (DOMAIN override) |->
     IF f \in DOMAIN override THEN override[f] ELSE defaults[f]]

\* a section of the configuration that sets nothing, { ...undefined }
NoSettings == [field \in {} |-> TRUE]

\* the awaited call of runCase before it is made
NotCalled == [kind |-> "none"]

\* the content of the cases a suite is made of: what the ground-truth source
\* yields and what the service answers when the calls succeed
CaseKind(kind) ==
  CASE kind = "pass" ->
         [groundTruth |-> JObj(<<"x">>, <<JNum(1)>>),
          output |-> JObj(<<"x">>, <<JNum(1)>>),
          comparison |-> [arrayStrategy |-> "unordered"]]
    [] kind = "missing" ->
         [groundTruth |-> JObj(<<"x", "y">>, <<JNum(1), JNum(2)>>),
          output |-> JObj(<<"x">>, <<JNum(1)>>),
          comparison |-> [numericTolerance |-> 0]]
    [] kind = "warning" ->
         [groundTruth |-> JObj(<<"arr">>, <<JArr(<<JNum(1), JNum(2)>>)>>),
          output |-> JObj(<<"arr">>, <<JArr(<<JNum(2), JNum(1)>>)>>),
          comparison |-> [arrayStrategy |-> "unordered"]]
    [] OTHER ->
         [groundTruth |-> JObj(<<"x", "y", "z">>, <<JNum(1), JNum(2), JNum(1)>>),
          output |-> JObj(<<"x", "y">>, <<JNum(2), JNum(1)>>),
          comparison |-> [numericTolerance |-> 0]]

KindOrder == <<"mismatch", "mismatch", "pass", "warning", "missing">>

\* the positions of KindOrder the suites of the model start at
Variants == {1, 3}

\* the i-th case of the suite that starts at position variant of KindOrder
CaseOf(variant, i) ==
  LET kind == KindOrder[((variant + i - 2) % Len(KindOrder)) + 1]
      content == CaseKind(kind)
  IN [id |-> i,
      groundTruth |-> content.groundTruth,
      output |-> content.output,
      comparison |-> content.comparison,
      scoring |-> [mismatchPenalty |-> 5]]

\* the defaults section of the suite configurations the model runs
SuiteDefaults == [comparison |-> DefaultRules, scoring |-> DefaultScoring]

\* a concurrency section as the schema leaves it: both settings present
Concurrency(parallel, delay) ==
  [maxParallel |-> parallel, delayBetweenRequests |-> delay]

SuiteConfig(variant, n, concurrency) ==
  [cases |-> [i \in 1..n |-> CaseOf(variant, i)],
   defaults |-> SuiteDefaults,
   concurrency |-> concurrency]

\* the configuration without its optional concurrency section
WithoutConcurrency(cfg) == [f \in (DOMAIN cfg) \ {"concurrency"} |-> cfg[f]]

\* a pacing delay of the configurations of the model, in milliseconds
ConfiguredDelay == 50

\* the configurations a suite run starts from: every pool width with the
\* pacing delay ConfiguredDelay, and short suites with a delay of 0 and
\* with no concurrency section
SuiteConfigs ==
  {SuiteConfig(variant, n, Concurrency(parallel, ConfiguredDelay)) :
     variant \in Variants, n \in 0..MaxCases, parallel \in 1..MaxParallelBound}
    \cup {SuiteConfig(1, n, Concurrency(parallel, 0)) :
            n \in 1..2, parallel \in 1..MaxParallelBound}
    \cup {WithoutConcurrency(SuiteConfig(1, n, Concurrency(1, 0))) : n \in 1..2}

NoSuiteResult ==
  [totalCases |-> 0, passedCases |-> 0, failedCases |-> 0, warningCases |-> 0,
   cases |-> <<>>,
   aggregatedScoring |-> [averageScore |-> 0, averageCompleteness |-> 0,
                          averageAccuracy |-> 0]]

\* a status that ignores the warnings
CaseStatusNoWarning(cmp) == IF ~cmp.passed THEN "failed" ELSE "passed"

\* the status runCase derives from the comparison
CaseStatus(cmp) ==
  IF ~cmp.passed THEN "failed"
  ELSE IF Len(cmp.warnings) > 0 THEN "warning"
  ELSE "passed"

NoError == [code |-> "", message |-> ""]

\* the result runCase returns when all three calls succeeded
CompletedResult(testCase, defaults) ==
  LET comparisonRules == ShallowMerge(defaults.comparison, testCase.comparison)
      scoringConfig_ == ShallowMerge(defaults.scoring, testCase.scoring)
      cmp == Compare(testCase.groundTruth, testCase.output, comparisonRules)
  IN [caseId |-> testCase.id,
      status |-> CaseStatus(cmp),
      comparison |-> cmp,
      scoring |-> Score(cmp, scoringConfig_),
      error |-> NoError]

\* compare-then-score is a pure function of the case and the defaults; the
\* variable completed tabulates it for the cases of the configuration, and
\* the step that ends a successful runCase reads the case's entry
CompletedResults(cfg) ==
  [c \in 1..Len(cfg.cases) |-> CompletedResult(cfg.cases[c], cfg.defaults)]

\* a catch block that reports the scorer's sentinel instead of zero scores
FailedResultSentinel(testCase, message) ==
  [caseId |-> testCase.id,
   status |-> "failed",
   comparison |-> NoComparison,
   scoring |-> EmptyResult,
   error |-> [code |-> "EXECUTION_ERROR", message |-> message]]

\* the result the catch block of runCase returns
FailedResult(testCase, message) ==
  [caseId |-> testCase.id,
   status |-> "failed",
   comparison |-> NoComparison,
   scoring |-> ZeroScoring,
   error |-> [code |-> "EXECUTION_ERROR", message |-> message]]

(***************************************************************************)
(* Numbers of the aggregation.  The scores are JavaScript numbers, IEEE    *)
(* 754 doubles: every +, / and * rounds its exact result to 53 significant *)
(* bits, ties to even.  A double is modelled by its sign and its magnitude *)
(* in units of 2^-FracBits, written in limbs of LimbBits bits, least       *)
(* significant first, the last limb being the integer part; all the        *)
(* doubles of the aggregation are multiples of that unit.                  *)
(***************************************************************************)
LimbBits == 24
Base == 2^LimbBits
FracLimbs == 3
NumLimbs == FracLimbs + 1
FracBits == FracLimbs * LimbBits
Precision == 53

\* the limbs j |-> ... as a tuple
Limbs(f) == f \o <<>>

\* the value of an expression, computed once and handed to Body
Bind(value, Body(_)) == CHOOSE r \in {Body(v) : v \in {value}} : TRUE

Bit(mag, i) == (mag[(i \div LimbBits) + 1] \div 2^(i % LimbBits)) % 2

\* the most significant limb that is not zero, 0 when there is none
TopLimb(mag) ==
  CHOOSE j \in 0..NumLimbs :
    /\ j = 0 \/ mag[j] # 0
    /\ \A k \in (j + 1)..NumLimbs : mag[k] = 0

\* the number of significant bits of a magnitude
BitLength(mag) ==
  Bind(TopLimb(mag), LAMBDA top :
    IF top = 0 THEN 0
    ELSE LimbBits * (top - 1)
         + (CHOOSE b \in 1..LimbBits : 2^(b - 1) <= mag[top] /\ mag[top] < 2^b))

\* some bit below bit k is set
LowBitsSet(mag, k) ==
  \E j \in 1..NumLimbs :
    /\ LimbBits * (j - 1) < k
    /\ IF LimbBits * j <= k THEN mag[j] # 0
       ELSE mag[j] % 2^(k - LimbBits * (j - 1)) # 0

\* the magnitude with the bits below bit k cleared
ClearLow(mag, k) ==
  Limbs([j \in 1..NumLimbs |->
     IF LimbBits * j <= k THEN 0
     ELSE IF LimbBits * (j - 1) >= k THEN mag[j]
     ELSE mag[j] - (mag[j] % 2^(k - LimbBits * (j - 1)))])

PowerOfTwo(k) ==
  Limbs([j \in 1..NumLimbs |-> IF j = (k \div LimbBits) + 1 THEN 2^(k % LimbBits) ELSE 0])

\* the limbs j.. of a + b, given the carry into limb j
RECURSIVE AddFrom(_, _, _, _)
AddFrom(a, b, j, carry) ==
  IF j > NumLimbs THEN <<>>
  ELSE Bind(a[j] + b[j] + carry, LAMBDA s :
         <<s % Base>> \o AddFrom(a, b, j + 1, s \div Base))

MagAdd(a, b) == AddFrom(a, b, 1, 0)

\* the limbs j.. of a - b, given the borrow out of limb j
RECURSIVE SubFrom(_, _, _, _)
SubFrom(a, b, j, borrow) ==
  IF j > NumLimbs THEN <<>>
  ELSE Bind(a[j] - b[j] - borrow, LAMBDA d :
         <<d % Base>> \o SubFrom(a, b, j + 1, IF d < 0 THEN 1 ELSE 0))

\* a - b for a >= b
MagSub(a, b) == SubFrom(a, b, 1, 0)

MagLess(a, b) ==
  \E j \in 1..NumLimbs :
    a[j] < b[j] /\ \A k \in (j + 1)..NumLimbs : a[k] = b[k]

\* the limbs j.. of a * m, given the carry into limb j
RECURSIVE TimesFrom(_, _, _, _)
TimesFrom(a, m, j, carry) ==
  IF j > NumLimbs THEN <<>>
  ELSE Bind(a[j] * m + carry, LAMBDA p :
         <<p % Base>> \o TimesFrom(a, m, j + 1, p \div Base))

MagTimes(a, m) == TimesFrom(a, m, 1, 0)

\* long division of the limbs ..j of a by n, from the most significant limb
\* down, given the remainder of the limbs above j: the quotient's limbs and
\* the final remainder
RECURSIVE DivFrom(_, _, _, _)
DivFrom(a, n, j, rem) ==
  IF j = 0 THEN [quotient |-> <<>>, remainder |-> rem]
  ELSE Bind(rem * Base + a[j], LAMBDA d :
         Bind(DivFrom(a, n, j - 1, d % n), LAMBDA low :
           [quotient |-> Append(low.quotient, d \div n),
            remainder |-> low.remainder]))

MagDiv(a, n) == DivFrom(a, n, NumLimbs, 0)

\* the magnitude rounded at bit k: to nearest, ties to even; inexact tells
\* that the exact value lies above the magnitude
RoundAt(mag, k, inexact) ==
  IF k <= 0 THEN mag
  ELSE IF Bit(mag, k - 1) = 1
          /\ (inexact \/ LowBitsSet(mag, k - 1) \/ Bit(mag, k) = 1)
  THEN Bind(ClearLow(mag, k), LAMBDA kept : MagAdd(kept, PowerOfTwo(k)))
  ELSE ClearLow(mag, k)

\* the magnitude rounded to 53 significant bits
RoundToDouble(mag, inexact) ==
  Bind(BitLength(mag) - Precision, LAMBDA k : RoundAt(mag, k, inexact))

IsZero(mag) == \A j \in 1..NumLimbs : mag[j] = 0

Double(neg, mag) == [neg |-> neg /\ ~IsZero(mag), mag |-> mag]

\* the double of an integer below Base in magnitude
FromInteger(i) ==
  Double(i < 0, Limbs([j \in 1..NumLimbs |-> IF j = NumLimbs THEN Abs(i) ELSE 0]))

\* x + y
DoubleAdd(x, y) ==
  IF x.neg = y.neg
  THEN Bind(MagAdd(x.mag, y.mag),
            LAMBDA m : Double(x.neg, RoundToDouble(m, FALSE)))
  ELSE IF MagLess(x.mag, y.mag)
  THEN Bind(MagSub(y.mag, x.mag),
            LAMBDA m : Double(y.neg, RoundToDouble(m, FALSE)))
  ELSE Bind(MagSub(x.mag, y.mag),
            LAMBDA m : Double(x.neg, RoundToDouble(m, FALSE)))

\* x / n for a positive integer n
DoubleDivide(x, n) ==
  Bind(MagDiv(x.mag, n), LAMBDA d :
    Double(x.neg, RoundToDouble(d.quotient, d.remainder # 0)))

\* x * m for a positive integer m
DoubleTimes(x, m) ==
  Bind(MagTimes(x.mag, m), LAMBDA p : Double(x.neg, RoundToDouble(p, FALSE)))

\* Math.round(x): the nearest integer, ties towards +Infinity
MathRound(x) ==
  LET whole == x.mag[NumLimbs]
      half == Bit(x.mag, FracBits - 1) = 1
      below == LowBitsSet(x.mag, FracBits - 1)
  IN IF x.neg
     THEN 0 - (whole + (IF half /\ below THEN 1 ELSE 0))
     ELSE whole + (IF half THEN 1 ELSE 0)

\* the double of a score given in hundredths: the score is a double of the
\* form Math.round(v * 100) / 100
FromHundredths(h) == Bind(FromInteger(h), LAMBDA i : DoubleDivide(i, 100))

\* results.reduce((sum, r) => sum + r.scoring[field], 0) over the first n
\* results
RECURSIVE SumScores(_, _, _)
SumScores(rs, field, n) ==
  IF n = 0 THEN FromInteger(0)
  ELSE Bind(SumScores(rs, field, n - 1), LAMBDA sum :
         Bind(FromHundredths(rs[n].scoring[field]), LAMBDA score :
           DoubleAdd(sum, score)))

\* Math.round((sum / results.length) * 100) / 100, in hundredths
AverageScore(rs, field) ==
  IF Len(rs) > 0
  THEN Bind(SumScores(rs, field, Len(rs)), LAMBDA sum :
         Bind(DoubleDivide(sum, Len(rs)), LAMBDA avg :
           Bind(DoubleTimes(avg, 100), LAMBDA scaled : MathRound(scaled))))
  ELSE 0

CountStatus(rs, status) == Cardinality({i \in 1..Len(rs) : rs[i].status = status})

\* the suite result runSuite builds from the resolved case results
Aggregate(caseResults, cfg) ==
  [totalCases |-> Len(cfg.cases),
   passedCases |-> CountStatus(caseResults, "passed"),
   failedCases |-> CountStatus(caseResults, "failed"),
   warningCases |-> Len(caseResults) - CountStatus(caseResults, "passed")
                    - CountStatus(caseResults, "failed"),
   cases |-> caseResults,
   aggregatedScoring |->
     [averageScore |-> AverageScore(caseResults, "overallScore"),
      averageCompleteness |-> AverageScore(caseResults, "completenessScore"),
      averageAccuracy |-> AverageScore(caseResults, "accuracyScore")]]

(***************************************************************************)
(* Specification of a suite run.                                           *)
(***************************************************************************)
MaxFailures == 1

Min(a, b) == IF a <= b THEN a ELSE b

\* the initial loop with the bound `i <= maxParallel`
InitialBatchOffByOne(parallel, n) == Min(parallel + 1, n)

\* the number of processNext calls of the initial loop that dequeue a case:
\* for (i = 0; i < maxParallel && queue.length > 0; i++) processNext()
InitialBatch(parallel, n) == Min(parallel, n)

\* resolving as soon as the queue is drained
ShouldResolveQueueOnly(q, active) == Len(q) = 0

\* processNext: if (queue.length === 0 && activeCount === 0) resolve(results)
ShouldResolve(q, active) == Len(q) = 0 /\ active = 0

\* a dequeue guard that keeps one slot free
CanDequeueStrict(q, active, parallel) == active + 1 < parallel /\ Len(q) > 0

\* processNext: if (activeCount < maxParallel && queue.length > 0)
CanDequeue(q, active, parallel) == active < parallel /\ Len(q) > 0

Init ==
  /\ gt = JNull /\ actual = JNull
  /\ rules = DefaultRules /\ scoringConfig = DefaultScoring
  /\ comparison = NoComparison /\ scoring = ZeroScoring
  /\ cpc = "off" /\ schema = NoSchema
  /\ phase = "constructed"
  /\ config \in SuiteConfigs
  /\ completed = CompletedResults(config)
  /\ maxParallel = 0 /\ delayBetweenRequests = 0
  /\ queue = <<>>
  /\ activeCount = 0
  /\ results = <<>>
  /\ casePc = <<>>
  /\ timers = 0
  /\ stopped = 0
  /\ failedCalls = {}
  /\ suiteResult = NoSuiteResult
  /\ env = NoSettings /\ requests = <<>> /\ trace = <<>>
  /\ awaited = NotCalled /\ input = JNull

\* value || fallback for a number
OrDefault(value, fallback) == IF value # 0 THEN value ELSE fallback

\* config.concurrency?.[setting] || fallback
ConcurrencySetting(cfg, setting, fallback) ==
  IF "concurrency" \in DOMAIN cfg
  THEN OrDefault(cfg.concurrency[setting], fallback)
  ELSE fallback

\* runSuite up to its await: the settings are read, runCasesWithConcurrency
\* copies the cases into the queue and its initial loop calls processNext
\* while i < maxParallel and the queue is not empty; each call dequeues one
\* case and runs it up to the first await of runCase
RunSuite ==
  /\ phase = "constructed"
  /\ LET n == Len(config.cases)
         parallel == ConcurrencySetting(config, "maxParallel", 3)
         started == InitialBatch(parallel, n)
     IN /\ maxParallel' = parallel
        /\ delayBetweenRequests' =
             ConcurrencySetting(config, "delayBetweenRequests", 100)
        /\ queue' = [i \in 1..(n - started) |-> started + i]
        /\ activeCount' = started
        /\ casePc' = [i \in 1..n |-> IF i <= started THEN "fetchInput" ELSE "queued"]
  /\ phase' = "running"
  /\ UNCHANGED <<config, results, timers, stopped, failedCalls, completed, suiteResult>>
  /\ UNCHANGED cmpVars
  /\ UNCHANGED fetchVars

\* the continuation of processNext after `await this.runCase(...)`:
\* results.push(result); activeCount--; setTimeout(processNext, delay).
\* timers counts the pending pacing timers, each armed with
\* delayBetweenRequests
RecordResult(c, result) ==
  /\ results' = Append(results, result)
  /\ activeCount' = activeCount - 1
  /\ timers' = timers + 1
  /\ casePc' = [casePc EXCEPT ![c] = "done"]

\* fetchData(testCase.input) resolves
FetchInputDone(c) ==
  /\ casePc[c] = "fetchInput"
  /\ casePc' = [casePc EXCEPT ![c] = "fetchGroundTruth"]
  /\ UNCHANGED <<phase, config, maxParallel, delayBetweenRequests, queue, activeCount, results,
                 timers, stopped, failedCalls, completed, suiteResult>>
  /\ UNCHANGED cmpVars
  /\ UNCHANGED fetchVars

\* fetchData(testCase.groundTruth) resolves
FetchGroundTruthDone(c) ==
  /\ casePc[c] = "fetchGroundTruth"
  /\ casePc' = [casePc EXCEPT ![c] = "executeService"]
  /\ UNCHANGED <<phase, config, maxParallel, delayBetweenRequests, queue, activeCount, results,
                 timers, stopped, failedCalls, completed, suiteResult>>
  /\ UNCHANGED cmpVars
  /\ UNCHANGED fetchVars

\* executeService resolves: compare, score, status, return; the result is
\* recorded by processNext
ExecuteServiceDone(c) ==
  /\ casePc[c] = "executeService"
  /\ RecordResult(c, completed[c])
  /\ UNCHANGED <<phase, config, maxParallel, delayBetweenRequests, queue, stopped, failedCalls, completed, suiteResult>>
  /\ UNCHANGED cmpVars
  /\ UNCHANGED fetchVars

\* the messages of the errors the calls reject with
ErrorMessages == {"call failed"}

\* one of the three awaited calls of runCase rejects: the catch block returns
\* the failed result, which processNext records
CallFailed(c) ==
  /\ casePc[c] \in {"fetchInput", "fetchGroundTruth", "executeService"}
  /\ Cardinality(failedCalls) < MaxFailures
  /\ failedCalls' = failedCalls \cup {c}
  /\ \E message \in ErrorMessages :
       RecordResult(c, FailedResult(config.cases[c], message))
  /\ UNCHANGED <<phase, config, maxParallel, delayBetweenRequests, queue, stopped, completed, suiteResult>>
  /\ UNCHANGED cmpVars
  /\ UNCHANGED fetchVars

\* a pacing timer fires and calls processNext
ProcessNext ==
  /\ timers > 0
  /\ timers' = timers - 1
  /\ IF ShouldResolve(queue, activeCount)
     THEN /\ phase' = IF phase = "running" THEN "resolved" ELSE phase
          /\ UNCHANGED <<queue, activeCount, casePc, stopped>>
     ELSE IF CanDequeue(queue, activeCount, maxParallel)
     THEN /\ queue' = Tail(queue)
          /\ activeCount' = activeCount + 1
          /\ casePc' = [casePc EXCEPT ![Head(queue)] = "fetchInput"]
          /\ UNCHANGED <<phase, stopped>>
     ELSE /\ stopped' = stopped + 1
          /\ UNCHANGED <<phase, queue, activeCount, casePc>>
  /\ UNCHANGED <<config, maxParallel, delayBetweenRequests, results, failedCalls, completed, suiteResult>>
  /\ UNCHANGED cmpVars
  /\ UNCHANGED fetchVars

\* runSuite after `await this.runCasesWithConcurrency(...)`: aggregation
ReturnSuite ==
  /\ phase = "resolved"
  /\ phase' = "returned"
  /\ suiteResult' = Aggregate(results, config)
  /\ UNCHANGED <<config, maxParallel, delayBetweenRequests, queue, activeCount, results, casePc,
                 timers, stopped, failedCalls, completed>>
  /\ UNCHANGED cmpVars
  /\ UNCHANGED fetchVars

Next ==
  \/ RunSuite
  \/ \E c \in DOMAIN casePc : FetchInputDone(c)
  \/ \E c \in DOMAIN casePc : FetchGroundTruthDone(c)
  \/ \E c \in DOMAIN casePc : ExecuteServiceDone(c)
  \/ \E c \in DOMAIN casePc : CallFailed(c)
  \/ ProcessNext
  \/ ReturnSuite

Spec == Init /\ [][Next]_vars

(***************************************************************************)
(* Specification of a suite run in which one awaited call may never        *)
(* settle: axios is called without a timeout and nothing aborts a case.    *)
(***************************************************************************)
\* the cases whose awaited call never settles
Hung == {c \in DOMAIN casePc : casePc[c] = "hung"}

\* the awaited call of case c neither resolves nor rejects
CallHangs(c) ==
  /\ casePc[c] \in {"fetchInput", "fetchGroundTruth", "executeService"}
  /\ Hung = {}
  /\ casePc' = [casePc EXCEPT ![c] = "hung"]
  /\ UNCHANGED <<phase, config, maxParallel, delayBetweenRequests, queue,
                 activeCount, results, timers, stopped, failedCalls, completed,
                 suiteResult>>
  /\ UNCHANGED cmpVars
  /\ UNCHANGED fetchVars

NextHang ==
  \/ Next
  \/ \E c \in DOMAIN casePc : CallHangs(c)

\* the event loop takes every step that can be taken; a hung call offers none
HangSpec == Init /\ [][NextHang]_vars /\ WF_vars(NextHang)

(***************************************************************************)
(* Specification of one compare followed by one score.                     *)
(***************************************************************************)
InitCompare ==
  /\ gt \in JsonValues /\ actual \in JsonValues
  /\ rules = DefaultRules /\ scoringConfig = DefaultScoring
  /\ comparison = NoComparison /\ scoring = ZeroScoring
  /\ cpc = "input" /\ schema = NoSchema
  /\ phase = "off"
  /\ config = SuiteConfig(1, 0, Concurrency(1, 0))
  /\ completed = CompletedResults(config)
  /\ maxParallel = 0 /\ delayBetweenRequests = 0
  /\ queue = <<>>
  /\ activeCount = 0
  /\ results = <<>>
  /\ casePc = <<>>
  /\ timers = 0
  /\ stopped = 0
  /\ failedCalls = {}
  /\ suiteResult = NoSuiteResult
  /\ env = NoSettings /\ requests = <<>> /\ trace = <<>>
  /\ awaited = NotCalled /\ input = JNull

DoCompare ==
  /\ cpc = "input"
  /\ \E r \in RuleSets :
       /\ rules' = r
       /\ comparison' = Compare(gt, actual, r)
  /\ schema' = Infer(gt)
  /\ cpc' = "compared"
  /\ UNCHANGED <<gt, actual, scoringConfig, scoring>>
  /\ UNCHANGED runVars
  /\ UNCHANGED fetchVars

DoScore ==
  /\ cpc = "compared"
  /\ \E c \in ScoringConfigs :
       /\ scoringConfig' = c
       /\ scoring' = Score(comparison, c)
  /\ cpc' = "scored"
  /\ UNCHANGED <<gt, actual, rules, comparison, schema>>
  /\ UNCHANGED runVars
  /\ UNCHANGED fetchVars

NextCompare == DoCompare \/ DoScore

SpecCompare == InitCompare /\ [][NextCompare]_vars

(***************************************************************************)
(* DataFetcher (src/src/core/comparator.ts, lines 730-865).  A call of the *)
(* fetcher is the set of the ways it can go: rejected before any request,  *)
(* fulfilled at once, or pending on a request of the network.              *)
(***************************************************************************)
Pending(request) == [kind |-> "pending", request |-> request]

Resolved(value) == [kind |-> "resolved", value |-> value]

Rejected(message) == [kind |-> "rejected", message |-> message]

\* process.env[name]; a variable that is not set reads as "", falsy like
\* undefined
EnvValue(environment, name) ==
  IF name \in DOMAIN environment THEN environment[name] ELSE ""

Header(name, value) == [name |-> name, value |-> value]

NoAuthError == ""

\* an auth block that sends the api key without looking at it
AuthHeadersUnchecked(cfg, environment) ==
  IF "auth" \notin DOMAIN cfg
  THEN [error |-> NoAuthError, headers |-> {}]
  ELSE IF cfg.auth.type = "bearer"
  THEN IF EnvValue(environment, cfg.auth.tokenEnv) = ""
       THEN [error |-> "Bearer token not found in env: " \o cfg.auth.tokenEnv,
             headers |-> {}]
       ELSE [error |-> NoAuthError,
             headers |-> {Header("Authorization",
                                 "Bearer " \o EnvValue(environment, cfg.auth.tokenEnv))}]
  ELSE IF cfg.auth.type = "api-key"
  THEN [error |-> NoAuthError,
        headers |-> {Header(cfg.auth.headerName,
                            EnvValue(environment, cfg.auth.keyEnv))}]
  ELSE [error |-> NoAuthError, headers |-> {}]

\* the auth block of fetchFromApi and of executeService: the credential
\* headers, or the message of the error it throws
AuthHeaders(cfg, environment) ==
  IF "auth" \notin DOMAIN cfg
  THEN [error |-> NoAuthError, headers |-> {}]
  ELSE IF cfg.auth.type = "bearer"
  THEN IF EnvValue(environment, cfg.auth.tokenEnv) = ""
       THEN [error |-> "Bearer token not found in env: " \o cfg.auth.tokenEnv,
             headers |-> {}]
       ELSE [error |-> NoAuthError,
             headers |-> {Header("Authorization",
                                 "Bearer " \o EnvValue(environment, cfg.auth.tokenEnv))}]
  ELSE IF cfg.auth.type = "api-key"
  THEN IF EnvValue(environment, cfg.auth.keyEnv) = ""
       THEN [error |-> "API key not found in env: " \o cfg.auth.keyEnv,
             headers |-> {}]
       ELSE [error |-> NoAuthError,
             headers |-> {Header(cfg.auth.headerName,
                                 EnvValue(environment, cfg.auth.keyEnv))}]
  ELSE [error |-> NoAuthError, headers |-> {}]

\* what a file or a server of the model can hold
Answers ==
  {JObj(<<"x">>, <<JNum(1)>>),
   JObj(<<"x", "y">>, <<JNum(1), JNum(2)>>),
   JObj(<<"x", "y">>, <<JNum(2), JNum(2)>>)}

\* fetchFromFile: the parsed content of the file, or the error of the catch
\* block when the file cannot be read or parsed; the paths of the model end
\* in .json
FetchFromFile(filePath) ==
  {Rejected("Failed to read file: " \o filePath)}
    \cup {Resolved(content) : content \in Answers}

\* source.method || 'POST', method || 'POST'
MethodOf(section) == IF "method" \in DOMAIN section THEN section.method ELSE "POST"

\* method.toLowerCase()
ToLowerCase(method) ==
  CASE method = "POST" -> "post"
    [] method = "GET" -> "get"
    [] OTHER -> method

\* fetchFromApi: every error of the try block, the auth error included, is
\* rethrown as 'Failed to fetch from API'; the sources of the model have no
\* body
FetchFromApi(endpoint, method, cfg, environment) ==
  LET auth == AuthHeaders(cfg, environment)
  IN IF auth.error # NoAuthError
     THEN {Rejected("Failed to fetch from API: " \o endpoint)}
     ELSE {Pending([call |-> "fetchFromApi",
                    method |-> ToLowerCase(method),
                    url |-> endpoint,
                    headers |-> auth.headers])}

\* fetchJson: a string is a file path, anything else is inline JSON
FetchJson(source) ==
  IF source.k = "str" THEN FetchFromFile(source.s) ELSE {Resolved(source)}

FetchData(source, cfg, environment) ==
  CASE source.type = "file" -> FetchFromFile(source.path)
    [] source.type = "api" ->
         FetchFromApi(source.endpoint, MethodOf(source), cfg, environment)
    [] source.type = "json" -> FetchJson(source.source)
    [] OTHER -> {Rejected("Unknown data source type")}

\* executeService: the catch block rethrows the error as it is
ExecuteService(endpoint, method, data, cfg, environment) ==
  LET auth == AuthHeaders(cfg, environment)
  IN IF auth.error # NoAuthError
     THEN {Rejected(auth.error)}
     ELSE {Pending([call |-> "executeService",
                    method |-> ToLowerCase(method),
                    url |-> endpoint,
                    data |-> data,
                    headers |-> {Header("Content-Type", "application/json")}
                                  \cup auth.headers])}

\* the message of the error the caller sees when axios rejects
RejectionOf(request) ==
  IF request.call = "fetchFromApi"
  THEN "Failed to fetch from API: " \o request.url
  ELSE "Request failed with status code 500"

(***************************************************************************)
(* Specification of one runCase (lines 624-714) with its fetcher.          *)
(***************************************************************************)
InlineSource == [type |-> "json", source |-> JObj(<<"x", "y">>, <<JNum(1), JNum(2)>>)]

FileSource(filePath) == [type |-> "file", path |-> filePath]

ApiSource(endpoint) == [type |-> "api", endpoint |-> endpoint, method |-> "GET"]

InputSources == {InlineSource, FileSource("input.json"), ApiSource("https://input")}

GroundTruthSources ==
  {InlineSource, FileSource("truth.json"), ApiSource("https://truth")}

\* the optional comparison and scoring of a case: partial, as the schema of
\* a case leaves them
CaseSections ==
  {NoSettings,
   [comparison |-> [ignoreFields |-> {"x"}]],
   [comparison |-> [arrayStrategy |-> "ordered", numericTolerance |-> 0],
    scoring |-> [mismatchPenalty |-> 7]]}

\* the optional defaults of a suite
DefaultsSections ==
  {NoSettings,
   [defaults |-> [comparison |-> DefaultRules]],
   [defaults |-> [comparison |-> [ignoreFields |-> {"y"}, numericTolerance |-> 1],
                  scoring |-> [missingFieldPenalty |-> 20, mismatchPenalty |-> 5]]],
   [defaults |-> SuiteDefaults]}

\* the optional auth of a suite; headerName has the schema default
AuthSections ==
  {NoSettings,
   [auth |-> [type |-> "none"]],
   [auth |-> [type |-> "bearer", tokenEnv |-> "TOKEN"]],
   [auth |-> [type |-> "api-key", keyEnv |-> "KEY", headerName |-> "X-API-Key"]]}

\* nothing set, both credentials set, both set to the empty string
Environments ==
  {NoSettings,
   [TOKEN |-> "secret", KEY |-> "secret"],
   [TOKEN |-> "", KEY |-> ""]}

TestCase(inputSource, truthSource, sections) ==
  ShallowMerge([id |-> 1,
                input |-> inputSource,
                groundTruth |-> truthSource,
                execution |-> [endpoint |-> "https://service"]],
               sections)

\* suites of one case
CaseConfigs ==
  {ShallowMerge(ShallowMerge([cases |-> <<TestCase(inputSource, truthSource, sections)>>],
                             defaults), auth) :
     inputSource \in InputSources, truthSource \in GroundTruthSources,
     sections \in CaseSections, defaults \in DefaultsSections,
     auth \in AuthSections}

InitCase ==
  /\ config \in CaseConfigs
  /\ env \in Environments
  /\ casePc = <<"start">>
  /\ requests = <<>> /\ trace = <<>>
  /\ awaited = NotCalled /\ input = JNull
  /\ gt = JNull /\ actual = JNull
  /\ rules = NoSettings /\ scoringConfig = NoSettings
  /\ comparison = NoComparison /\ scoring = ZeroScoring
  /\ cpc = "off" /\ schema = NoSchema
  /\ phase = "off"
  /\ completed = <<>>
  /\ maxParallel = 0 /\ delayBetweenRequests = 0
  /\ queue = <<>>
  /\ activeCount = 0
  /\ results = <<>>
  /\ timers = 0
  /\ stopped = 0
  /\ failedCalls = {}
  /\ suiteResult = NoSuiteResult

\* config.defaults?.[section]
DefaultSettings(cfg, section) ==
  IF "defaults" \in DOMAIN cfg /\ section \in DOMAIN cfg.defaults
  THEN cfg.defaults[section]
  ELSE NoSettings

\* testCase[section]
CaseSettings(testCase, section) ==
  IF section \in DOMAIN testCase THEN testCase[section] ELSE NoSettings

\* { ...config.defaults?.[section], ...testCase[section] }
MergedSettings(cfg, testCase, section) ==
  ShallowMerge(DefaultSettings(cfg, section), CaseSettings(testCase, section))

\* an order of the calls that skips the ground truth
StepAfterSkipping(step) == "executeService"

\* the call runCase makes when the call of step has been fulfilled
StepAfter(step) ==
  IF step = "fetchInput" THEN "fetchGroundTruth" ELSE "executeService"

\* the call of runCase that step names
CallOf(step, testCase, data) ==
  CASE step = "fetchInput" -> FetchData(testCase.input, config, env)
    [] step = "fetchGroundTruth" -> FetchData(testCase.groundTruth, config, env)
    [] OTHER -> ExecuteService(testCase.execution.endpoint,
                               MethodOf(testCase.execution), data, config, env)

\* step is called: the call goes one of its ways, and a call that reaches
\* axios adds a request
Call(step, testCase, data) ==
  /\ \E call \in CallOf(step, testCase, data) :
       /\ awaited' = call
       /\ requests' = IF call.kind = "pending"
                      THEN Append(requests, call.request)
                      ELSE requests
  /\ trace' = Append(trace, step)
  /\ casePc' = <<step>>

\* runCase up to its first await: the two merges, then fetchData(input)
StartCase ==
  /\ casePc = <<"start">>
  /\ rules' = MergedSettings(config, config.cases[1], "comparison")
  /\ scoringConfig' = MergedSettings(config, config.cases[1], "scoring")
  /\ Call("fetchInput", config.cases[1], JNull)
  /\ UNCHANGED <<gt, actual, comparison, scoring, cpc, schema>>
  /\ UNCHANGED <<phase, config, maxParallel, delayBetweenRequests, queue,
                 activeCount, results, timers, stopped, failedCalls, completed,
                 suiteResult>>
  /\ UNCHANGED <<env, input>>

\* axios settles: the server answers, or the request fails
Respond ==
  /\ Len(casePc) = 1
  /\ awaited.kind = "pending"
  /\ \E outcome \in {Rejected(RejectionOf(awaited.request))}
                      \cup {Resolved(answer) : answer \in Answers} :
       awaited' = outcome
  /\ UNCHANGED cmpVars
  /\ UNCHANGED runVars
  /\ UNCHANGED <<env, requests, trace, input>>

\* `await fetchData(...)` resumes with the value and runCase makes its next
\* call
FetchResolved ==
  /\ Len(casePc) = 1
  /\ casePc[1] \in {"fetchInput", "fetchGroundTruth"}
  /\ awaited.kind = "resolved"
  /\ input' = IF casePc[1] = "fetchInput" THEN awaited.value ELSE input
  /\ gt' = IF casePc[1] = "fetchGroundTruth" THEN awaited.value ELSE gt
  /\ Call(StepAfter(casePc[1]), config.cases[1], input')
  /\ UNCHANGED <<actual, rules, scoringConfig, comparison, scoring, cpc, schema>>
  /\ UNCHANGED <<phase, config, maxParallel, delayBetweenRequests, queue,
                 activeCount, results, timers, stopped, failedCalls, completed,
                 suiteResult>>
  /\ UNCHANGED env

\* `await executeService(...)` resumes with the output: compare, score,
\* status, and the result is returned
ServiceResolved ==
  /\ casePc = <<"executeService">>
  /\ awaited.kind = "resolved"
  /\ actual' = awaited.value
  /\ comparison' = Compare(gt, awaited.value, rules)
  /\ schema' = Infer(gt)
  /\ scoring' = Score(comparison', scoringConfig)
  /\ trace' = trace \o <<"compare", "score">>
  /\ results' = <<[caseId |-> config.cases[1].id,
                   status |-> CaseStatus(comparison'),
                   comparison |-> comparison',
                   scoring |-> scoring',
                   error |-> NoError]>>
  /\ casePc' = <<"done">>
  /\ UNCHANGED <<gt, rules, scoringConfig, cpc>>
  /\ UNCHANGED <<phase, config, maxParallel, delayBetweenRequests, queue,
                 activeCount, timers, stopped, failedCalls, completed,
                 suiteResult>>
  /\ UNCHANGED <<env, requests, awaited, input>>

\* an awaited call rejects: the catch block returns the failed result
CaseRejected ==
  /\ Len(casePc) = 1
  /\ casePc[1] \in {"fetchInput", "fetchGroundTruth", "executeService"}
  /\ awaited.kind = "rejected"
  /\ results' = <<FailedResult(config.cases[1], awaited.message)>>
  /\ casePc' = <<"done">>
  /\ UNCHANGED cmpVars
  /\ UNCHANGED <<phase, config, maxParallel, delayBetweenRequests, queue,
                 activeCount, timers, stopped, failedCalls, completed,
                 suiteResult>>
  /\ UNCHANGED fetchVars

NextCase ==
  \/ StartCase
  \/ Respond
  \/ FetchResolved
  \/ ServiceResolved
  \/ CaseRejected

SpecCase == InitCase /\ [][NextCase]_vars

(***************************************************************************)
(* Properties of the suite run.                                            *)
(***************************************************************************)
\* the cases that have been dequeued and have not yet recorded a result
InFlight ==
  {c \in DOMAIN casePc :
     casePc[c] \in {"fetchInput", "fetchGroundTruth", "executeService"}}

ResultsOf(rs, c) == {i \in 1..Len(rs) : rs[i].caseId = c}

C2_OneResultPerCase ==
  /\ phase \in {"resolved", "returned"} =>
       /\ Len(queue) = 0
       /\ InFlight = {}
       /\ Len(results) = Len(config.cases)
       /\ \A c \in 1..Len(config.cases) : Cardinality(ResultsOf(results, c)) = 1
  /\ phase = "returned" =>
       /\ Len(suiteResult.cases) = Len(config.cases)
       /\ \A c \in 1..Len(config.cases) :
            Cardinality(ResultsOf(suiteResult.cases, c)) = 1

\* a suite has returned whose cases completed out of their configured order
C2_Witness ==
  /\ phase = "returned"
  /\ Len(suiteResult.cases) >= 3
  /\ suiteResult.cases[1].caseId # 1

\* C3: a case one of whose calls failed has the result failed /
\* EXECUTION_ERROR with all four scores 0; every other case that has finished
\* has the result of its own comparison, whatever happened to its siblings;
\* and the suite resolves with all cases done
C3_FaultIsolation ==
  /\ \A c \in DOMAIN casePc :
       casePc[c] = "done" =>
         /\ Cardinality(ResultsOf(results, c)) = 1
         /\ LET r == results[CHOOSE i \in ResultsOf(results, c) : TRUE]
                testCase == config.cases[c]
                merged == ShallowMerge(config.defaults.comparison, testCase.comparison)
            IN IF c \in failedCalls
               THEN /\ r.status = "failed"
                    /\ r.error.code = "EXECUTION_ERROR"
                    /\ r.scoring.overallScore = 0
                    /\ r.scoring.completenessScore = 0
                    /\ r.scoring.accuracyScore = 0
                    /\ r.scoring.extraFieldScore = 0
               ELSE /\ r.error = NoError
                    /\ r.comparison = Compare(testCase.groundTruth, testCase.output, merged)
                    /\ r.status = CaseStatus(r.comparison)
  /\ \A c \in failedCalls : casePc[c] = "done"
  /\ phase \in {"resolved", "returned"} => \A c \in DOMAIN casePc : casePc[c] = "done"

\* a suite has returned in which one case failed in a call and a sibling
\* that finished after it passed
C3_Witness ==
  /\ phase = "returned"
  /\ \E i, j \in 1..Len(results) :
       /\ i < j
       /\ results[i].caseId \in failedCalls
       /\ results[j].caseId \notin failedCalls
       /\ results[j].status = "passed"

\* the scheduling of the event loop: a step that can be taken is eventually
\* taken (calls settle, timers fire, continuations run)
FairSpec == Spec /\ WF_vars(Next)

\* C4: a suite with at least one case eventually returns its result, and a
\* worker stops only when the pending queue is empty
C4_Terminates ==
  /\ (phase = "constructed" /\ Len(config.cases) >= 1) ~> (phase = "returned")
  /\ [][stopped' > stopped => Len(queue) = 0]_vars

\* a suite with pending cases has returned and some worker has stopped
C4_Witness ==
  /\ phase = "returned"
  /\ stopped > 0
  /\ Len(config.cases) > maxParallel

\* C7: the status of a case is passed / warning / failed exactly as the
\* comparison passed without warnings / passed with warnings / did not pass
\* or a call failed
C7_Status ==
  \A i \in 1..Len(results) :
    LET r == results[i]
        erred == r.caseId \in failedCalls
    IN /\ r.status = "passed" <=>
            (~erred /\ r.comparison.passed /\ Len(r.comparison.warnings) = 0)
       /\ r.status = "warning" <=>
            (~erred /\ r.comparison.passed /\ Len(r.comparison.warnings) > 0)
       /\ r.status = "failed" <=> (erred \/ ~r.comparison.passed)

\* results with all three statuses, one of the failures caused by a call
C7_Witness ==
  /\ \E i \in 1..Len(results) : results[i].status = "passed"
  /\ \E i \in 1..Len(results) : results[i].status = "warning"
  /\ \E i \in 1..Len(results) :
       results[i].status = "failed" /\ results[i].caseId \in failedCalls

\* the results in the order of the configured cases
SortedByCase(rs) ==
  [i \in 1..Len(rs) |-> rs[CHOOSE j \in 1..Len(rs) : rs[j].caseId = i]]

\* C6: in a suite result the three counts add up to totalCases, which is the
\* number of configured cases and the length of the per-case list, and the
\* counts and the three averaged scores are those of any other order of
\* completion of the same case results
C6_Aggregation ==
  phase = "returned" =>
    /\ suiteResult.passedCases + suiteResult.failedCases
         + suiteResult.warningCases = suiteResult.totalCases
    /\ suiteResult.totalCases = Len(config.cases)
    /\ suiteResult.totalCases = Len(suiteResult.cases)
    /\ LET inCaseOrder == Aggregate(SortedByCase(results), config)
       IN /\ suiteResult.passedCases = inCaseOrder.passedCases
          /\ suiteResult.failedCases = inCaseOrder.failedCases
          /\ suiteResult.warningCases = inCaseOrder.warningCases
          /\ suiteResult.aggregatedScoring = inCaseOrder.aggregatedScoring

(***************************************************************************)
(* Properties of compare and score.                                        *)
(***************************************************************************)
\* C5: passed is false exactly when mismatches or missing is non-empty, or
\* extra is non-empty while the extraFieldsWarning rule is disabled
C5_PassedIffNoFailure ==
  cpc \in {"compared", "scored"} =>
    (~comparison.passed <=>
       \/ Len(comparison.mismatches) > 0
       \/ Len(comparison.missing) > 0
       \/ (Len(comparison.extra) > 0 /\ ~rules.extraFieldsWarning))

\* C8: the four scores of a scoring result lie in [0, 100]
C8_ScoresInRange ==
  cpc = "scored" =>
    /\ scoring.overallScore \in 0..10000
    /\ scoring.completenessScore \in 0..10000
    /\ scoring.accuracyScore \in 0..10000
    /\ scoring.extraFieldScore \in 0..10000

\* C9: when the ground truth is an object with n fields of which m are
\* missing from actual and none is mismatched, completenessScore is
\* (n - m) / n * 100 and accuracyScore is 100
C9_Completeness ==
  (/\ cpc = "scored"
   /\ gt \in FlatObjects /\ actual \in FlatObjects
   /\ Len(gt.keys) > 0
   /\ Len(comparison.mismatches) = 0)
  => /\ scoring.completenessScore =
          RoundHundredths((Len(gt.keys) - Len(comparison.missing)) * 100, Len(gt.keys))
     /\ scoring.accuracyScore = 10000

\* the number of items of an array whose string form is str
Occurrences(items, str) == Cardinality({i \in 1..Len(items) : JSString(items[i]) = str})

\* C10: under the unordered strategy primitive arrays are compared as
\* multisets of string forms: a value that occurs more often in the ground
\* truth than in actual is reported missing, one that occurs more often in
\* actual is reported extra
C10_UnorderedMultiset ==
  (/\ cpc \in {"compared", "scored"}
   /\ rules.arrayStrategy = "unordered"
   /\ gt \in PrimitiveArrays /\ actual \in PrimitiveArrays)
  => \A str \in StringSet(gt.items) \cup StringSet(actual.items) :
       /\ Occurrences(gt.items, str) > Occurrences(actual.items, str)
            => \E i \in 1..Len(comparison.missing) :
                 JSString(comparison.missing[i].expectedValue) = str
       /\ Occurrences(actual.items, str) > Occurrences(gt.items, str)
            => \E i \in 1..Len(comparison.extra) :
                 JSString(comparison.extra[i].value) = str

\* the kind of a JSON value
Kind(v) ==
  CASE v.k = "null" -> "null"
    [] v.k = "obj" -> "object"
    [] v.k = "arr" -> "array"
    [] OTHER -> "scalar"

\* the array g is paired with the actual array index by index
Positional(g, r) ==
  \/ r.arrayStrategy = "ordered"
  \/ Len(g.items) > 0 /\ Typeof(g.items[1]) = "object"

\* the paths of the fields and items inside v, v being at path
RECURSIVE PathsIn(_, _)
PathsIn(v, path) ==
  IF v.k = "obj"
  THEN UNION {{FieldPath(path, v.keys[i])} \cup PathsIn(v.vals[i], FieldPath(path, v.keys[i])) :
                i \in 1..Len(v.keys)}
  ELSE IF v.k = "arr"
  THEN {path \o "[]"}
         \cup UNION {{ItemPath(path, i - 1)} \cup PathsIn(v.items[i], ItemPath(path, i - 1)) :
                       i \in 1..Len(v.items)}
  ELSE {}

\* the pairs (path, ground-truth value, actual value) of values that lie at
\* the same path of the two trees: the roots, the values of a key that both
\* objects have and that is not ignored, the items of an index that both
\* arrays have
RECURSIVE Corresponding(_, _, _, _)
Corresponding(g, a, path, r) ==
  {<<path, g, a>>}
    \cup (IF g.k = "obj" /\ a.k = "obj"
          THEN UNION {IF HasKey(a, g.keys[i])
                         /\ FieldPath(path, g.keys[i]) \notin r.ignoreFields
                      THEN Corresponding(g.vals[i], GetKey(a, g.keys[i]),
                                         FieldPath(path, g.keys[i]), r)
                      ELSE {} : i \in 1..Len(g.keys)}
          ELSE IF g.k = "arr" /\ a.k = "arr" /\ Positional(g, r)
          THEN UNION {IF i <= Len(a.items)
                      THEN Corresponding(g.items[i], a.items[i], ItemPath(path, i - 1), r)
                      ELSE {} : i \in 1..Len(g.items)}
          ELSE {})

\* the entries of a list whose path is one of paths
EntriesAt(entries, paths) == {i \in 1..Len(entries) : entries[i].path \in paths}

\* C11: where the ground-truth value and the actual value at a path are both
\* non-null and of different kinds among object, array and scalar, compare
\* records exactly one mismatch at that path, of kind 'type', and no
\* mismatch, missing or extra entry beneath it
C11_KindMismatch ==
  cpc \in {"compared", "scored"} =>
    \A t \in Corresponding(gt, actual, "", rules) :
      (Kind(t[2]) # "null" /\ Kind(t[3]) # "null" /\ Kind(t[2]) # Kind(t[3]))
      => LET beneath == (PathsIn(t[2], t[1]) \cup PathsIn(t[3], t[1])) \ {t[1]}
         IN /\ Cardinality(EntriesAt(comparison.mismatches, {t[1]})) = 1
            /\ \A i \in EntriesAt(comparison.mismatches, {t[1]}) :
                 comparison.mismatches[i].type = "type"
            /\ EntriesAt(comparison.mismatches, beneath) = {}
            /\ EntriesAt(comparison.missing, beneath) = {}
            /\ EntriesAt(comparison.extra, beneath) = {}

\* C12: for every ground-truth object and actual object at the same path,
\* objects that are elements of positionally compared arrays included, each
\* key of the actual object that the ground-truth object lacks and that is
\* not ignored yields exactly one extra entry with the key's path and value
C12_ExtraKeys ==
  cpc \in {"compared", "scored"} =>
    \A t \in Corresponding(gt, actual, "", rules) :
      (t[2].k = "obj" /\ t[3].k = "obj") =>
        \A i \in 1..Len(t[3].keys) :
          (~HasKey(t[2], t[3].keys[i])
           /\ FieldPath(t[1], t[3].keys[i]) \notin rules.ignoreFields)
          => /\ Cardinality(EntriesAt(comparison.extra,
                                      {FieldPath(t[1], t[3].keys[i])})) = 1
             /\ \A j \in EntriesAt(comparison.extra, {FieldPath(t[1], t[3].keys[i])}) :
                  comparison.extra[j].value = t[3].vals[i]

\* the path p and the paths beneath it in the tree v, v being at path
RECURSIVE PathsUnder(_, _, _)
PathsUnder(v, path, p) ==
  IF path = p /\ p # "" THEN {p} \cup PathsIn(v, p)
  ELSE IF v.k = "obj"
  THEN UNION {PathsUnder(v.vals[i], FieldPath(path, v.keys[i]), p) : i \in 1..Len(v.keys)}
  ELSE IF v.k = "arr"
  THEN UNION {PathsUnder(v.items[i], ItemPath(path, i - 1), p) : i \in 1..Len(v.items)}
  ELSE {}

\* C13: the result holds no mismatch, missing or extra entry at an ignored
\* path or beneath one, and a ground-truth key whose path is not ignored and
\* that the actual object lacks yields exactly one missing entry carrying
\* the expected value
C13_IgnoredFields ==
  cpc \in {"compared", "scored"} =>
    /\ \A p \in rules.ignoreFields :
         LET ignored == PathsUnder(gt, "", p) \cup PathsUnder(actual, "", p)
         IN /\ EntriesAt(comparison.mismatches, ignored) = {}
            /\ EntriesAt(comparison.missing, ignored) = {}
            /\ EntriesAt(comparison.extra, ignored) = {}
    /\ \A t \in Corresponding(gt, actual, "", rules) :
         (t[2].k = "obj" /\ t[3].k = "obj") =>
           \A i \in 1..Len(t[2].keys) :
             (~HasKey(t[3], t[2].keys[i])
              /\ FieldPath(t[1], t[2].keys[i]) \notin rules.ignoreFields)
             => /\ Cardinality(EntriesAt(comparison.missing,
                                         {FieldPath(t[1], t[2].keys[i])})) = 1
                /\ \A j \in EntriesAt(comparison.missing,
                                      {FieldPath(t[1], t[2].keys[i])}) :
                     comparison.missing[j].expectedValue = t[2].vals[i]

\* C14: a comparison without mismatches and without missing entries scores
\* overall = completeness = accuracy = 100 and extraFieldScore = 0, with an
\* empty per-field list and an all-zero breakdown, whatever the number of
\* extra entries and the scoring config
C14_Sentinel ==
  (/\ cpc = "scored"
   /\ Len(comparison.mismatches) = 0
   /\ Len(comparison.missing) = 0)
  => scoring = [overallScore |-> 10000,
                completenessScore |-> 10000,
                accuracyScore |-> 10000,
                extraFieldScore |-> 0,
                fieldScores |-> <<>>,
                breakdown |-> [totalFields |-> 0, matchedFields |-> 0,
                               missingFields |-> 0, mismatchedFields |-> 0,
                               extraFields |-> 0]]

\* a comparison with extra entries only has been scored under penalties of 100
C14_Witness ==
  /\ cpc = "scored"
  /\ Len(comparison.mismatches) = 0
  /\ Len(comparison.missing) = 0
  /\ Len(comparison.extra) >= 2
  /\ scoringConfig.extraFieldPenalty = 100

\* the distinct paths of the mismatches and of the missing entries
Universe(cmp) ==
  {cmp.mismatches[i].path : i \in 1..Len(cmp.mismatches)}
    \cup {cmp.missing[i].path : i \in 1..Len(cmp.missing)}

C16_Reflexive ==
  (cpc \in {"compared", "scored"} /\ gt = actual /\ rules = DefaultRules) =>
    /\ comparison.passed
    /\ comparison.mismatches = <<>>
    /\ comparison.missing = <<>>
    /\ comparison.extra = <<>>
    /\ comparison.warnings = <<>>
    /\ cpc = "scored" =>
         /\ scoring.overallScore = 10000
         /\ scoring.completenessScore = 10000
         /\ scoring.accuracyScore = 10000

\* an object holding a primitive array of two items has been compared with
\* itself under the default rules and scored
C16_Witness ==
  /\ cpc = "scored"
  /\ gt = actual
  /\ rules = DefaultRules
  /\ gt.k = "obj"
  /\ \E i \in 1..Len(gt.vals) : gt.vals[i].k = "arr" /\ Len(gt.vals[i].items) = 2

\* the ground-truth and actual numbers that lie at the same path, the path
\* being that of an object field or of an item of a positionally compared
\* array
NumericPairs ==
  {t \in Corresponding(gt, actual, "", rules) :
     t[1] # "" /\ t[2].k = "num" /\ t[3].k = "num"}

\* C17: two numbers at the same path are equal exactly when their absolute
\* difference is at most the tolerance, the bound included; otherwise compare
\* records exactly one mismatch at that path, of kind 'numeric'
C17_NumericTolerance ==
  cpc \in {"compared", "scored"} =>
    \A t \in NumericPairs :
      IF Abs(t[2].n - t[3].n) <= rules.numericTolerance
      THEN EntriesAt(comparison.mismatches, {t[1]}) = {}
      ELSE /\ Cardinality(EntriesAt(comparison.mismatches, {t[1]})) = 1
           /\ \A i \in EntriesAt(comparison.mismatches, {t[1]}) :
                /\ comparison.mismatches[i].type = "numeric"
                /\ comparison.mismatches[i].groundTruth = t[2]
                /\ comparison.mismatches[i].actual = t[3]

\* two numbers that differ by exactly the tolerance have been compared, next
\* to two numbers that are the same
C17_Witness ==
  /\ cpc = "compared"
  /\ rules.numericTolerance = 1
  /\ \E t \in NumericPairs : Abs(t[2].n - t[3].n) = rules.numericTolerance
  /\ \E t \in NumericPairs : t[2].n = t[3].n
  /\ comparison.mismatches = <<>>

\* the string s reads as a number: it is the decimal literal of one
NumericLooking(s) == s # "" /\ \E n \in NumLiterals : ToString(n) = s

\* the number of a numeric-looking string
NumericValue(s) == CHOOSE n \in NumLiterals : ToString(n) = s

\* the pairs of one number and one string that lie at the same path; either
\* may be the ground truth
NumberStringPairs ==
  {t \in Corresponding(gt, actual, "", rules) :
     \/ t[2].k = "num" /\ t[3].k = "str"
     \/ t[2].k = "str" /\ t[3].k = "num"}

\* C18: a number and a string at the same path are equal, with typeCoercion
\* enabled, exactly when the string is numeric-looking and its value is
\* within the tolerance of the number, or, the string having no numeric
\* reading, when the string forms are identical; with typeCoercion disabled
\* they are never equal and one mismatch of kind 'value' is recorded
C18_NumberAndString ==
  cpc \in {"compared", "scored"} =>
    \A t \in NumberStringPairs :
      LET number == IF t[2].k = "num" THEN t[2].n ELSE t[3].n
          string == IF t[2].k = "str" THEN t[2].s ELSE t[3].s
          at == EntriesAt(comparison.mismatches, {t[1]})
      IN IF rules.typeCoercion
         THEN at = {} <=>
                IF NumericLooking(string)
                THEN Abs(number - NumericValue(string)) <= rules.numericTolerance
                ELSE ToString(number) = string
         ELSE /\ Cardinality(at) = 1
              /\ \A i \in at : comparison.mismatches[i].type = "value"

\* every item of the array is a primitive: null, a boolean, a number or a
\* string
PrimitiveItems(v) ==
  v.k = "arr" /\ \A i \in 1..Len(v.items) : v.items[i].k \notin {"obj", "arr"}

\* a holds the items of g, each as often as g does
SameMultiset(g, a) ==
  /\ Len(g.items) = Len(a.items)
  /\ \A i \in 1..Len(g.items) :
       Cardinality({j \in 1..Len(g.items) : g.items[j] = g.items[i]})
         = Cardinality({j \in 1..Len(a.items) : a.items[j] = g.items[i]})

\* the primitive arrays that lie at the same path of the two trees
PrimitiveArrayPairs ==
  {t \in Corresponding(gt, actual, "", rules) :
     PrimitiveItems(t[2]) /\ PrimitiveItems(t[3])}

\* the value at path is all there is to compare: the root, or the only field
\* of both objects
SoleContent(path) ==
  \/ path = ""
  \/ /\ gt.k = "obj" /\ actual.k = "obj"
     /\ gt.keys = <<path>> /\ actual.keys = <<path>>

\* C19: under the unordered strategy a primitive array that is a permutation
\* of the ground-truth array in another order yields no missing and no extra
\* entry and exactly one warning at the array's path, the comparison passes
\* and the case status is 'warning'; in the same order no warning is recorded
C19_PermutationWarning ==
  (cpc \in {"compared", "scored"} /\ rules.arrayStrategy = "unordered") =>
    \A t \in PrimitiveArrayPairs :
      SameMultiset(t[2], t[3]) =>
        IF t[2] # t[3]
        THEN /\ EntriesAt(comparison.missing, PathsIn(t[2], t[1])) = {}
             /\ EntriesAt(comparison.extra, PathsIn(t[3], t[1])) = {}
             /\ Cardinality(EntriesAt(comparison.warnings, {t[1]})) = 1
             /\ SoleContent(t[1]) =>
                  /\ comparison.passed
                  /\ CaseStatus(comparison) = "warning"
        ELSE EntriesAt(comparison.warnings, {t[1]}) = {}

\* a non-empty array whose first item is an object
ObjectLed(v) == v.k = "arr" /\ Len(v.items) > 0 /\ v.items[1].k = "obj"

\* every array inside v, v included, is a non-empty array led by an object
RECURSIVE OnlyObjectArrays(_)
OnlyObjectArrays(v) ==
  IF v.k = "arr"
  THEN ObjectLed(v) /\ \A i \in 1..Len(v.items) : OnlyObjectArrays(v.items[i])
  ELSE IF v.k = "obj"
  THEN \A i \in 1..Len(v.vals) : OnlyObjectArrays(v.vals[i])
  ELSE TRUE

\* the rules with the other array strategy
OtherStrategy(r) ==
  [r EXCEPT !.arrayStrategy = IF @ = "ordered" THEN "unordered" ELSE "ordered"]

\* the pairs of arrays at the same path that are arrays of objects, or
\* arrays of primitives compared under the ordered strategy
IndexedArrayPairs ==
  {t \in Corresponding(gt, actual, "", rules) :
     /\ t[2].k = "arr" /\ t[3].k = "arr"
     /\ \/ ObjectLed(t[2])
        \/ /\ rules.arrayStrategy = "ordered"
           /\ PrimitiveItems(t[2]) /\ PrimitiveItems(t[3])}

\* the arrays of IndexedArrayPairs are compared index by index: equal items
\* of a common index leave no entry, nothing is recorded for the array as a
\* multiset, and every index at or beyond the length of the shorter array
\* has exactly one entry at path[i], missing when the ground-truth array is
\* the longer, extra when actual is
IndexByIndex ==
  \A t \in IndexedArrayPairs :
    LET g == t[2].items
        a == t[3].items
        At(entries, i) == EntriesAt(entries, {ItemPath(t[1], i)})
    IN /\ EntriesAt(comparison.missing, {t[1] \o "[]"}) = {}
       /\ EntriesAt(comparison.extra, {t[1] \o "[]"}) = {}
       /\ \A i \in 0..(Min(Len(g), Len(a)) - 1) :
            g[i + 1] = a[i + 1] =>
              /\ At(comparison.mismatches, i) = {}
              /\ At(comparison.missing, i) = {}
              /\ At(comparison.extra, i) = {}
       /\ \A i \in Min(Len(g), Len(a))..(Max(Len(g), Len(a)) - 1) :
            /\ At(comparison.mismatches, i) = {}
            /\ IF Len(g) > Len(a)
               THEN /\ Cardinality(At(comparison.missing, i)) = 1
                    /\ \A k \in At(comparison.missing, i) :
                         comparison.missing[k].expectedValue = g[i + 1]
                    /\ At(comparison.extra, i) = {}
               ELSE /\ Cardinality(At(comparison.extra, i)) = 1
                    /\ \A k \in At(comparison.extra, i) :
                         comparison.extra[k].value = a[i + 1]
                    /\ At(comparison.missing, i) = {}

\* C20 as stated: an array whose first ground-truth item is an object is
\* compared index by index and compare returns the same result under the
\* ordered and the unordered strategy; indices beyond the shorter array
\* yield one missing or one extra entry at path[i]; primitive arrays under
\* ordered follow the same rule
C20_ObjectArraysAnyStrategy ==
  cpc \in {"compared", "scored"} =>
    /\ IndexByIndex
    /\ ObjectLed(gt) => comparison = Compare(gt, actual, OtherStrategy(rules))

\* C20, amended: the result of compare is the same under both strategies
\* when every array inside the ground truth is itself an array of objects;
\* an array of primitives inside an element is compared as the strategy says
C20_ObjectArraysPositional ==
  cpc \in {"compared", "scored"} =>
    /\ IndexByIndex
    /\ (ObjectLed(gt) /\ OnlyObjectArrays(gt)) =>
         comparison = Compare(gt, actual, OtherStrategy(rules))

\* an array of objects has been compared under the unordered strategy with
\* a longer array of objects
C20_Witness ==
  /\ cpc = "compared"
  /\ rules.arrayStrategy = "unordered"
  /\ ObjectLed(gt) /\ OnlyObjectArrays(gt)
  /\ actual.k = "arr" /\ Len(actual.items) > Len(gt.items)
  /\ Len(comparison.extra) = 1

RECURSIVE NotAmong(_, _)
NotAmong(items, others) ==
  IF items = <<>> THEN <<>>
  ELSE (IF JSString(Head(items)) \in StringSet(others) THEN <<>> ELSE <<Head(items)>>)
       \o NotAmong(Tail(items), others)

\* the entries of a list whose path is one of paths, in the order of the list
RECURSIVE Restrict(_, _)
Restrict(entries, paths) ==
  IF entries = <<>> THEN <<>>
  ELSE (IF Head(entries).path \in paths THEN <<Head(entries)>> ELSE <<>>)
       \o Restrict(Tail(entries), paths)

\* the four lists of a comparison result
Lists(cmp) == <<cmp.mismatches, cmp.missing, cmp.extra, cmp.warnings>>

\* C30: under the unordered strategy the entries recorded for an array of
\* primitives are determined by the string forms of the items: the missing
\* entries are the ground-truth items whose string form no actual item has,
\* the extra entries the actual items whose string form no ground-truth item
\* has, all at the path of the array suffixed with [], there is no mismatch
\* for an item, and another numericTolerance or typeCoercion gives the same
\* lists
C30_StringFormsOnly ==
  (cpc \in {"compared", "scored"} /\ rules.arrayStrategy = "unordered") =>
    \A t \in PrimitiveArrayPairs :
      LET inside == PathsIn(t[2], t[1]) \cup PathsIn(t[3], t[1])
          missing == Restrict(comparison.missing, inside)
          extra == Restrict(comparison.extra, inside)
      IN /\ Restrict(comparison.mismatches, inside) = <<>>
         /\ \A i \in 1..Len(missing) : missing[i].path = t[1] \o "[]"
         /\ \A i \in 1..Len(extra) : extra[i].path = t[1] \o "[]"
         /\ [i \in 1..Len(missing) |-> missing[i].expectedValue]
              = NotAmong(t[2].items, t[3].items)
         /\ [i \in 1..Len(extra) |-> extra[i].value]
              = NotAmong(t[3].items, t[2].items)
         /\ \A tolerance \in {0, 1}, coercion \in BOOLEAN :
              Lists(Compare(gt, actual, [rules EXCEPT !.numericTolerance = tolerance,
                                                      !.typeCoercion = coercion]))
                = Lists(comparison)

\* the arrays of primitives of a value with the path the schema gives them:
\* the value itself, the fields of objects, and what the first element of an
\* array of objects holds, under the path suffixed with []
RECURSIVE PrimitiveArraysAt(_, _)
PrimitiveArraysAt(v, prefix) ==
  IF PrimitiveItems(v) THEN {<<prefix, v>>}
  ELSE IF v.k = "obj"
  THEN UNION {PrimitiveArraysAt(v.vals[i], FieldPath(prefix, v.keys[i])) :
                i \in 1..Len(v.keys)}
  ELSE IF v.k = "arr"
  THEN PrimitiveArraysAt(v.items[1], prefix \o "[]")
  ELSE {}

\* the type of a primitive
PrimitiveType(v) ==
  CASE v.k = "null" -> "null"
    [] v.k = "bool" -> "boolean"
    [] v.k = "num" -> "number"
    [] OTHER -> "string"

\* C29: for every array of primitives of the ground truth, the root value or
\* an object field, the inferred schema has exactly one entry at the array's
\* path, typed as the first element is, and no entry when the array is
\* empty; the schema of an array of objects is that of its first element
C29_InferredArrays ==
  cpc \in {"compared", "scored"} =>
    /\ schema.totalFields = Len(schema.fields)
    /\ \A t \in PrimitiveArraysAt(gt, "") :
         LET at == EntriesAt(schema.fields, {t[1]})
         IN IF t[2].items = <<>> THEN at = {}
            ELSE /\ Cardinality(at) = 1
                 /\ \A i \in at :
                      /\ schema.fields[i].isArray
                      /\ schema.fields[i].type = PrimitiveType(t[2].items[1])
    /\ (gt.k = "arr" /\ ~PrimitiveItems(gt)) => schema = Infer(JArr(<<gt.items[1]>>))

\* C24: for a configuration whose case list is empty runSuite eventually
\* returns, with totalCases, the three counts and the three averaged scores
\* all 0 and an empty list of case results
C24_EmptySuiteResolves ==
  (phase = "constructed" /\ Len(config.cases) = 0) ~>
    /\ phase = "returned"
    /\ suiteResult.totalCases = 0
    /\ suiteResult.passedCases = 0
    /\ suiteResult.failedCases = 0
    /\ suiteResult.warningCases = 0
    /\ suiteResult.cases = <<>>
    /\ suiteResult.aggregatedScoring.averageScore = 0
    /\ suiteResult.aggregatedScoring.averageCompleteness = 0
    /\ suiteResult.aggregatedScoring.averageAccuracy = 0

\* C26: the pool width and the pacing delay of a run are the configured
\* maxParallel and delayBetweenRequests, 0 included, and 3 and 100 when the
\* concurrency section is absent; the first min(maxParallel, number of
\* cases) cases start at once, with no timer, and every later case is
\* dequeued by the firing of a pacing timer
C26_Pacing ==
  /\ [](phase \in {"running", "resolved", "returned"} =>
          IF "concurrency" \in DOMAIN config
          THEN /\ maxParallel = config.concurrency.maxParallel
               /\ delayBetweenRequests = config.concurrency.delayBetweenRequests
          ELSE /\ maxParallel = 3
               /\ delayBetweenRequests = 100)
  /\ [][/\ phase = "constructed" =>
             /\ activeCount' = Min(maxParallel', Len(config.cases))
             /\ timers' = 0
        /\ (phase = "running" /\ queue' # queue) =>
             /\ timers > 0
             /\ timers' = timers - 1]_vars

\* C27: when the call of one case never returns and maxParallel >= 2, only
\* the slot of that case stays occupied, every other case is eventually
\* dequeued, run and has its result recorded, and runSuite never resolves
C27_HungCall ==
  /\ [](Hung # {} =>
          /\ phase = "running"
          /\ activeCount = Cardinality(InFlight) + 1)
  /\ (Hung # {} /\ maxParallel >= 2) ~>
       /\ queue = <<>>
       /\ activeCount = 1
       /\ \A c \in (DOMAIN casePc) \ Hung :
            casePc[c] = "done" /\ Cardinality(ResultsOf(results, c)) = 1

\* the first case hangs and the cases queued behind the pool have all been
\* run by the other worker
C27_Witness ==
  /\ casePc # <<>> /\ casePc[1] = "hung"
  /\ maxParallel = 2
  /\ Len(config.cases) >= 4
  /\ Len(results) = Len(config.cases) - 1
  /\ phase = "running"

(***************************************************************************)
(* Properties of one runCase.                                              *)
(***************************************************************************)
\* the case has recorded its result
CaseDone == casePc = <<"done">>

\* the settings the merge of runCase produces for a section
Merged(section) == IF section = "comparison" THEN rules ELSE scoringConfig

SettingFields(section) ==
  IF section = "comparison" THEN DOMAIN DefaultRules ELSE DOMAIN DefaultScoring

\* C23: the rules and the scoring configuration used for a case are a
\* field-by-field shallow override: a field the case sets has the case's
\* value, the list ignoreFields included, which is never combined with the
\* suite's; a field the case does not set has the value of the suite defaults,
\* and is not set when the defaults do not set it either; compare and score
\* are given these merged settings.
C23_ShallowOverride ==
  casePc # <<"start">> =>
    /\ \A section \in {"comparison", "scoring"} :
         LET ofCase == CaseSettings(config.cases[1], section)
             ofSuite == DefaultSettings(config, section)
             merged == Merged(section)
         IN \A f \in SettingFields(section) :
              IF f \in DOMAIN ofCase
              THEN f \in DOMAIN merged /\ merged[f] = ofCase[f]
              ELSE IF f \in DOMAIN ofSuite
              THEN f \in DOMAIN merged /\ merged[f] = ofSuite[f]
              ELSE f \notin DOMAIN merged
    /\ (CaseDone /\ results[1].error = NoError) =>
         /\ results[1].comparison = Compare(gt, actual, rules)
         /\ results[1].scoring = Score(results[1].comparison, scoringConfig)

\* a case that replaces the suite's ignoreFields and inherits its tolerance
C23_Witness ==
  /\ CaseDone
  /\ results[1].error = NoError
  /\ CaseSettings(config.cases[1], "comparison") = [ignoreFields |-> {"x"}]
  /\ DefaultSettings(config, "comparison")
       = [ignoreFields |-> {"y"}, numericTolerance |-> 1]
  /\ rules = [ignoreFields |-> {"x"}, numericTolerance |-> 1]
  /\ scoringConfig = [missingFieldPenalty |-> 20, mismatchPenalty |-> 5]

StepOrder ==
  <<"fetchInput", "fetchGroundTruth", "executeService", "compare", "score">>

IsPrefix(s, t) == Len(s) <= Len(t) /\ \A i \in 1..Len(s) : s[i] = t[i]

ServiceRequests == {i \in 1..Len(requests) : requests[i].call = "executeService"}

\* C21: the steps of a case are taken in the order fetch input, fetch
\* ground truth, invoke the service, compare, score, each at most once, the
\* service being requested at most once; once a step has failed no later
\* step is taken and no request is made, and the case ends with the failed
\* result; a case that ends without an error has taken all five steps.
C21_StepOrder ==
  /\ [](IsPrefix(trace, StepOrder))
  /\ [](Cardinality(ServiceRequests) <= 1)
  /\ [][awaited.kind = "rejected" => trace' = trace /\ requests' = requests]_vars
  /\ [](CaseDone =>
          IF results[1].error = NoError
          THEN trace = StepOrder
          ELSE /\ awaited.kind = "rejected"
               /\ Len(trace) <= 3
               /\ results[1] = FailedResult(config.cases[1], awaited.message))

\* the ground truth could not be fetched: the service was never invoked
C21_Witness ==
  /\ CaseDone
  /\ trace = <<"fetchInput", "fetchGroundTruth">>
  /\ results[1].status = "failed"
  /\ results[1].error.message = "Failed to fetch from API: https://truth"
  /\ Len(requests) = 2

\* the suite names a credential whose environment variable is not set
CredentialUnset ==
  /\ "auth" \in DOMAIN config
  /\ \/ config.auth.type = "bearer" /\ config.auth.tokenEnv \notin DOMAIN env
     \/ config.auth.type = "api-key" /\ config.auth.keyEnv \notin DOMAIN env

\* the suite has no auth, or auth of type none
WithoutCredential == "auth" \notin DOMAIN config \/ config.auth.type = "none"

\* the step is a call that goes to the network
Remote(step) ==
  \/ step = "fetchInput" /\ config.cases[1].input.type = "api"
  \/ step = "fetchGroundTruth" /\ config.cases[1].groundTruth.type = "api"
  \/ step = "executeService"

CredentialHeaders == {"Authorization", "X-API-Key"}

\* C22: with bearer or api-key auth whose environment variable is not set,
\* every fetch of a remote source and every invocation of the service is
\* rejected without a network request being made, and the case ends failed
\* with the code EXECUTION_ERROR; with auth of type none, or without auth,
\* every remote call makes its request, without a credential header, and
\* no missing-credential error is reported.
C22_MissingCredential ==
  /\ CredentialUnset =>
       /\ requests = <<>>
       /\ \A step \in {"fetchInput", "fetchGroundTruth", "executeService"} :
            (casePc = <<step>> /\ Remote(step)) => awaited.kind = "rejected"
       /\ CaseDone =>
            /\ results[1].status = "failed"
            /\ results[1].error.code = "EXECUTION_ERROR"
  /\ WithoutCredential =>
       /\ Len(requests) = Cardinality({i \in 1..Len(trace) : Remote(trace[i])})
       /\ \A i \in 1..Len(requests) :
            \A header \in requests[i].headers : header.name \notin CredentialHeaders
       /\ CaseDone =>
            results[1].error.message
              \notin {"Bearer token not found in env: TOKEN",
                      "API key not found in env: KEY"}

\* the inline sources were read, then the service was not invoked for want
\* of the api key
C22_Witness ==
  /\ CaseDone
  /\ "auth" \in DOMAIN config
  /\ config.auth.type = "api-key"
  /\ env = NoSettings
  /\ trace = <<"fetchInput", "fetchGroundTruth", "executeService">>
  /\ requests = <<>>
  /\ results[1].status = "failed"
  /\ results[1].error
       = [code |-> "EXECUTION_ERROR", message |-> "API key not found in env: KEY"]

\* the case and the suite configure no rule and no scoring at all
NothingConfigured ==
  /\ CaseSettings(config.cases[1], "comparison") = NoSettings
  /\ CaseSettings(config.cases[1], "scoring") = NoSettings
  /\ DefaultSettings(config, "comparison") = NoSettings
  /\ DefaultSettings(config, "scoring") = NoSettings

\* C25: the rules and the scoring configuration given to compare and score
\* have every field defined, a field set by neither the case nor the suite
\* having its schema default; so a case with nothing configured whose
\* output equals its ground truth has no mismatch, and its overall score is
\* a number between 0 and 100.
C25_SettingsDefined ==
  casePc # <<"start">> =>
    /\ \A section \in {"comparison", "scoring"} :
         /\ DOMAIN Merged(section) = SettingFields(section)
         /\ \A f \in SettingFields(section) :
              (/\ f \notin DOMAIN CaseSettings(config.cases[1], section)
               /\ f \notin DOMAIN DefaultSettings(config, section))
                => Merged(section)[f]
                     = (IF section = "comparison" THEN DefaultRules ELSE DefaultScoring)[f]
    /\ (CaseDone /\ results[1].error = NoError /\ NothingConfigured) =>
         /\ gt = actual => results[1].comparison.mismatches = <<>>
         /\ results[1].scoring.overallScore \in 0..10000

====
